---- MODULE Spec2Model ----
(***************************************************************************)
(* CareOps automation/reminder engine                                      *)
(* (backend/src/integrations/email.service.ts, the automation service      *)
(* part: startAutomationEngine, triggerAutomation, executeAutomation,      *)
(* replaceVariables and the four scans), with the Socket.IO server of the  *)
(* same file and the controllers next to it: setupAutomations (onboarding) *)
(* and createBooking / updateBooking (bookings).                           *)
(*                                                                         *)
(* Conventions                                                             *)
(*  - A JavaScript string is a sequence of one-character strings, so that  *)
(*    RegExp replacement and Prisma's `contains` act on characters.        *)
(*  - A JavaScript value is a record [t |-> "string" | "number" |          *)
(*    "undefined" | "null", v |-> ...].                                    *)
(*  - Time is counted in whole hours since the process started.            *)
(*  - A database table is a function from row id to row; the Alert table,  *)
(*    whose rows the engine only creates, is a bag of rows.                *)
(***************************************************************************)
EXTENDS Integers, Sequences, FiniteSets, Bags, TLC

VARIABLES
    now,          \* the wall clock, in hours
    automations,  \* table Automation: id -> rule
    bookings,     \* table Booking: id -> booking (with its contact)
    submissions,  \* table FormSubmission: id -> submission
    items,        \* table InventoryItem: id -> item
    alerts,       \* table Alert: a bag of rows
    outbox,       \* provider calls that succeeded: a bag of <<channel, rule, entity>>
    faults,       \* the awaited calls that have rejected so far (a count)
    ioInstance,   \* the module-level Socket.IO handle: "null" or "io"
    fastPc,       \* position of the 15-minute cron callback
    lastRun,      \* what the most recent scan run did (history)
    callTemplate, \* replaceVariables called on its own: the template argument
    callContext,  \* ... the context argument
    callResult,   \* ... whether the call was made and what it returned
    overduePc,    \* position of a checkOverdueForms run taken step by step
    overdueForms, \* ... the rows its findMany returned that the loop has not reached
    lastWrite,    \* ... the last update of the loop: the row and the status it replaced (history)
    sockets,      \* Socket.IO: client -> whether it is connected and the rooms it has joined
    received,     \* ... client -> the 'new-alert' events it has got, in order
    published,    \* ... the 'new-alert' emits made so far, in order (history)
    tickLog,      \* the scans the 15-minute callback has run in this tick, in order (history)
    runs,         \* the 15-minute callbacks taken step by step: firing -> position
    submitted,    \* the rules setupAutomations was asked to store: rule id -> request (history)
    requests      \* the booking requests being handled: request -> position

\* the arguments and the result of a call of replaceVariables on its own
call == <<callTemplate, callContext, callResult>>

\* a run of checkOverdueForms taken step by step
overdueRun == <<overduePc, overdueForms, lastWrite>>

\* what the scheduled scans read and write
engine == <<now, automations, bookings, submissions, items, alerts, outbox,
            faults, ioInstance, fastPc, lastRun>>

\* the Socket.IO server and its clients
hub == <<sockets, received, published>>

\* the HTTP controllers next to the engine
controllers == <<submitted, requests>>

vars == <<engine, call, overdueRun, hub, tickLog, runs, controllers>>

----------------------------------------------------------------------------
(* Bounds of the model                                                     *)

\* the number of instants of Schedule the clock visits
MaxTicks == 4
\* the number of awaited calls that reject in one behaviour
MaxFaults == 1

\* addDays(d, 1): one day, in hours
Day == 24

----------------------------------------------------------------------------
(* JavaScript values and strings                                           *)

Undefined == [t |-> "undefined"]
Null == [t |-> "null"]
Str(s) == [t |-> "string", v |-> s]
Num(n) == [t |-> "number", v |-> n]
Bool(b) == [t |-> "boolean", v |-> b]

\* JavaScript truthiness of a value (used by `if (context.email)` and `x || y`)
Truthy(x) ==
    \/ x.t = "string" /\ x.v # <<>>
    \/ x.t = "number" /\ x.v # 0
    \/ x.t = "boolean" /\ x.v

\* a || b
OrElse(a, b) == IF Truthy(a) THEN a ELSE b

Digit == <<"0", "1", "2", "3", "4", "5", "6", "7", "8", "9">>

\* String(n) for a natural number
RECURSIVE ToDigits(_)
ToDigits(n) ==
    IF n < 10 THEN <<Digit[n + 1]>>
    ELSE ToDigits(n \div 10) \o <<Digit[(n % 10) + 1]>>

\* ToString of a value, as String.prototype.replace applies it to its
\* replacement argument and a template literal to an interpolated value
ToStr(x) ==
    CASE x.t = "string" -> x.v
      [] x.t = "number" -> ToDigits(x.v)
      [] x.t = "null" -> <<"n", "u", "l", "l">>
      [] OTHER -> <<"u", "n", "d", "e", "f", "i", "n", "e", "d">>

MatchAt(s, pat, i) ==
    /\ i + Len(pat) - 1 <= Len(s)
    /\ SubSeq(s, i, i + Len(pat) - 1) = pat

\* GetSubstitution: the text a replacement string stands for at one match
\* of a pattern without capture groups: dollar dollar is a dollar, dollar
\* ampersand the matched text, dollar apostrophe the text after the match;
\* any other dollar is literal.  (Dollar backtick, the text before the
\* match, is left out: no string of the model holds a backtick.)
RECURSIVE GetSubstitution(_, _, _, _)
GetSubstitution(rep, matched, after, j) ==
    IF j > Len(rep) THEN <<>>
    ELSE IF rep[j] = "$" /\ j < Len(rep) /\ rep[j + 1] \in {"$", "&", "'"}
         THEN (CASE rep[j + 1] = "$" -> <<"$">>
                 [] rep[j + 1] = "&" -> matched
                 [] OTHER -> after)
              \o GetSubstitution(rep, matched, after, j + 2)
         ELSE <<rep[j]>> \o GetSubstitution(rep, matched, after, j + 1)

\* s.replace(new RegExp(pat, 'g'), rep) for a literal, non-empty pattern:
\* every match, left to right, without rescanning the inserted text
RECURSIVE ReplaceFrom(_, _, _, _)
ReplaceFrom(s, pat, rep, i) ==
    IF i > Len(s) THEN <<>>
    ELSE IF MatchAt(s, pat, i)
         THEN GetSubstitution(rep, pat, SubSeq(s, i + Len(pat), Len(s)), 1)
              \o ReplaceFrom(s, pat, rep, i + Len(pat))
         ELSE <<s[i]>> \o ReplaceFrom(s, pat, rep, i + 1)

ReplaceAll(s, pat, rep) == ReplaceFrom(s, pat, rep, 1)

\* s contains sub (Prisma `contains` on PostgreSQL: case-sensitive LIKE)
Contains(s, sub) == \E i \in 1..(Len(s) + 1) : MatchAt(s, sub, i)

\* s.trim(), for the one blank the callers can leave at either end
Trim(s) ==
    LET a == IF s # <<>> /\ Head(s) = " " THEN Tail(s) ELSE s
    IN  IF a # <<>> /\ a[Len(a)] = " " THEN SubSeq(a, 1, Len(a) - 1) ELSE a

----------------------------------------------------------------------------
(* Event context: an object literal, i.e. an ordered list of key/value     *)
(* pairs (Object.keys follows insertion order)                             *)

KV(k, x) == [key |-> k, val |-> x]

\* context[key]
Get(context, k) ==
    IF \E i \in 1..Len(context) : context[i].key = k
    THEN context[CHOOSE i \in 1..Len(context) : context[i].key = k].val
    ELSE Undefined

\* the RegExp source `{{${key}}}`
Placeholder(k) == <<"{", "{">> \o k \o <<"}", "}">>

\* replaceVariables: one global replace per key of the context, in key
\* order, each applied to the result of the previous one.  A template that
\* is not a string makes result.replace throw (TypeError).
RECURSIVE ReplaceKeys(_, _, _)
ReplaceKeys(result, context, i) ==
    IF i > Len(context) THEN result
    ELSE ReplaceKeys(
            ReplaceAll(result, Placeholder(context[i].key),
                       ToStr(OrElse(context[i].val, Str(<<>>)))),
            context, i + 1)

replaceVariables(template, context) ==
    IF template.t # "string" /\ context # <<>>
    THEN [threw |-> TRUE, v |-> <<>>]
    ELSE [threw |-> FALSE,
          v |-> ReplaceKeys(IF template.t = "string" THEN template.v ELSE <<>>,
                            context, 1)]

----------------------------------------------------------------------------
(* Text used by the rows of the model                                      *)

sGloves == <<"G", "l", "o", "v", "e", "s">>
sMasks == <<"M", "a", "s", "k", "s">>
sGlove == <<"G", "l", "o", "v", "e">>
sSam == <<"S", "a", "m">>
sKim == <<"K", "i", "m">>
sMail == <<"s", "@", "x">>
sPhone == <<"5", "5", "5">>
sIntake == <<"I", "n", "t", "a", "k", "e">>
sCheckup == <<"C", "h", "e", "c", "k", "u", "p">>
sNotification == <<"N", "o", "t", "i", "f", "i", "c", "a", "t", "i", "o", "n">>
sInventoryPath == <<"/", "i", "n", "v", "e", "n", "t", "o", "r", "y", "/">>

\* "{{itemName}} low"
tItemLow == <<"{", "{", "i", "t", "e", "m", "N", "a", "m", "e", "}", "}", " ", "l", "o", "w">>
\* "Only {{quantity}} left (threshold {{threshold}})"
tOnlyLeft == <<"O", "n", "l", "y", " ", "{", "{", "q", "u", "a", "n", "t", "i", "t", "y", "}", "}", " ", "l", "e", "f", "t", " ", "(", "t", "h", "r", "e", "s", "h", "o", "l", "d", " ", "{", "{", "t", "h", "r", "e", "s", "h", "o", "l", "d", "}", "}", ")">>
\* "{{itemName}}: {{quantity}} left"
tItemLeft == <<"{", "{", "i", "t", "e", "m", "N", "a", "m", "e", "}", "}", ":", " ", "{", "{", "q", "u", "a", "n", "t", "i", "t", "y", "}", "}", " ", "l", "e", "f", "t">>
\* "Reminder: {{bookingType}}"
tReminder == <<"R", "e", "m", "i", "n", "d", "e", "r", ":", " ", "{", "{", "b", "o", "o", "k", "i", "n", "g", "T", "y", "p", "e", "}", "}">>
\* "Hi {{contactName}}"
tHi == <<"H", "i", " ", "{", "{", "c", "o", "n", "t", "a", "c", "t", "N", "a", "m", "e", "}", "}">>
\* "Form {{formName}} due"
tFormDue == <<"F", "o", "r", "m", " ", "{", "{", "f", "o", "r", "m", "N", "a", "m", "e", "}", "}", " ", "d", "u", "e">>

kContactName == <<"c", "o", "n", "t", "a", "c", "t", "N", "a", "m", "e">>
kEmail == <<"e", "m", "a", "i", "l">>
kPhone == <<"p", "h", "o", "n", "e">>
kBookingType == <<"b", "o", "o", "k", "i", "n", "g", "T", "y", "p", "e">>
kBookingDate == <<"b", "o", "o", "k", "i", "n", "g", "D", "a", "t", "e">>
kBookingTime == <<"b", "o", "o", "k", "i", "n", "g", "T", "i", "m", "e">>
kFormName == <<"f", "o", "r", "m", "N", "a", "m", "e">>
kItemName == <<"i", "t", "e", "m", "N", "a", "m", "e">>
kQuantity == <<"q", "u", "a", "n", "t", "i", "t", "y">>
kThreshold == <<"t", "h", "r", "e", "s", "h", "o", "l", "d">>
kLinkTo == <<"l", "i", "n", "k", "T", "o">>

----------------------------------------------------------------------------
(* The rows the database holds when the engine starts.  The two           *)
(* workspaces hold the same booking-reminder e-mail rule and the same      *)
(* low-stock item; their inventory-low rules differ in the message.        *)

Workspaces == {"W1", "W2"}

\* an e-mail rule whose subject and body both hold a placeholder
EmailConfig == [subject |-> Str(tReminder), body |-> Str(tHi)]
SmsConfig == [message |-> Str(tFormDue)]
LowInventoryConfig ==
    [alertType |-> "LOW_INVENTORY", priority |-> Undefined,
     title |-> Str(tItemLow), message |-> Str(tOnlyLeft)]
\* a rule whose message names the item
NamedLowInventoryConfig ==
    [alertType |-> "LOW_INVENTORY", priority |-> Undefined,
     title |-> Str(tItemLow), message |-> Str(tItemLeft)]
FormAlertConfig ==
    [alertType |-> "FORM_REMINDER", priority |-> Str(<<"H", "I", "G", "H">>),
     title |-> Str(tFormDue), message |-> Str(tHi)]

Rule(w, tr, ac, on, cfg) ==
    [workspaceId |-> w, trigger |-> tr, action |-> ac, isActive |-> on,
     config |-> cfg]

InitAutomations ==
    <<Rule("W1", "BOOKING_REMINDER", "SEND_EMAIL", TRUE, EmailConfig),
      Rule("W2", "BOOKING_REMINDER", "SEND_EMAIL", TRUE, EmailConfig),
      Rule("W1", "INVENTORY_LOW", "CREATE_ALERT", TRUE, LowInventoryConfig),
      Rule("W2", "INVENTORY_LOW", "CREATE_ALERT", TRUE, NamedLowInventoryConfig),
      Rule("W1", "FORM_PENDING", "SEND_SMS", TRUE, SmsConfig),
      Rule("W1", "FORM_PENDING", "CREATE_ALERT", TRUE, FormAlertConfig),
      Rule("W1", "INVENTORY_LOW", "CREATE_ALERT", FALSE, LowInventoryConfig),
      Rule("W2", "BOOKING_REMINDER", "SEND_SMS", TRUE, [message |-> Str(tHi)])>>

Contact(first, mail, tel) ==
    [firstName |-> Str(first), lastName |-> Null, email |-> mail,
     phone |-> tel]

Sam == Contact(sSam, Str(sMail), Str(sPhone))
\* a contact with neither e-mail address nor phone number
Kim == Contact(sKim, Null, Str(<<>>))

Booking(w, start, st, c) ==
    [workspaceId |-> w, startTime |-> start, status |-> st, contact |-> c,
     bookingType |-> [name |-> Str(sCheckup)]]

InitBookings ==
    <<Booking("W1", 30, "CONFIRMED", Sam),
      Booking("W2", 30, "PENDING", Kim),
      Booking("W1", 3, "PENDING", Sam),
      Booking("W2", 50, "CONFIRMED", Sam),
      Booking("W1", 30, "CANCELLED", Sam),
      Booking("W1", 30, "COMPLETED", Sam),
      Booking("W2", 30, "NO_SHOW", Sam)>>

\* dueDate and bookingId are nullable columns
Submission(st, created, due, b, c) ==
    [status |-> st, createdAt |-> created, dueDate |-> due, bookingId |-> b,
     contact |-> c, form |-> [name |-> Str(sIntake)]]

InitSubmissions ==
    <<Submission("PENDING", 0, Num(1), Num(1), Sam),
      Submission("PENDING", 0, Null, Null, Sam),
      Submission("COMPLETED", 0, Num(1), Num(1), Sam),
      Submission("PENDING", 1, Num(1), Num(3), Kim)>>

Item(w, n, q, thr, on) ==
    [workspaceId |-> w, name |-> n, quantity |-> q, lowStockThreshold |-> thr,
     isActive |-> on]

InitItems ==
    <<Item("W1", sGloves, 3, 10, TRUE),
      Item("W2", sGloves, 3, 10, TRUE),
      Item("W1", sMasks, 20, 10, TRUE),
      Item("W2", sMasks, 0, 10, FALSE)>>

RuleIds == DOMAIN InitAutomations

\* what a scan dispatches for
Entities ==
    ({"booking"} \X DOMAIN InitBookings)
        \cup ({"submission"} \X DOMAIN InitSubmissions)
        \cup ({"item"} \X DOMAIN InitItems)

----------------------------------------------------------------------------
(* Rule Executor                                                           *)

\* What one call of executeAutomation did.  `threw`: the call ended with an
\* exception; `alert`, `emit`, `send`: the row created, the Socket.IO
\* publish and the provider call that succeeded (each at most one).
Exec(id, what, ex, rows, pubs, calls) ==
    [rule |-> id, outcome |-> what, threw |-> ex, alert |-> rows,
     emit |-> pubs, send |-> calls]

\* `if (context.email)`, `if (context.phone)` without the test
HasRecipientAlways(context, k) == TRUE

\* `if (context.email)`, `if (context.phone)`
HasRecipient(context, k) == Truthy(Get(context, k))

\* case CREATE_ALERT with the emit before the awaited prisma.alert.create
createAlertPublishFirst(id, context, fails) ==
    LET automation == automations[id]
        config == automation.config
        title == replaceVariables(config.title, context)
        message == replaceVariables(config.message, context)
        emit == IF ioInstance # "null"
                THEN <<[room |-> automation.workspaceId, event |-> "new-alert",
                        type |-> config.alertType, message |-> message.v]>>
                ELSE <<>>
    IN  IF title.threw \/ message.threw
        THEN Exec(id, "failed", TRUE, <<>>, <<>>, <<>>)
        ELSE IF fails
        THEN Exec(id, "failed", TRUE, <<>>, emit, <<>>)
        ELSE Exec(id, "created", FALSE,
                  <<[workspaceId |-> automation.workspaceId,
                     type |-> config.alertType,
                     priority |-> ToStr(OrElse(config.priority,
                                        Str(<<"M", "E", "D", "I", "U", "M">>))),
                     title |-> title.v,
                     message |-> message.v,
                     linkTo |-> OrElse(Get(context, kLinkTo), Null),
                     isRead |-> FALSE,
                     createdAt |-> now]>>,
                  emit, <<>>)

\* case CREATE_ALERT: await prisma.alert.create, then the emit to the room
\* of the rule's workspace if ioInstance is set
createAlert(id, context, fails) ==
    LET automation == automations[id]
        config == automation.config
        title == replaceVariables(config.title, context)
        message == replaceVariables(config.message, context)
    IN  IF title.threw \/ message.threw \/ fails
        THEN Exec(id, "failed", TRUE, <<>>, <<>>, <<>>)
        ELSE Exec(id, "created", FALSE,
                  <<[workspaceId |-> automation.workspaceId,
                     type |-> config.alertType,
                     priority |-> ToStr(OrElse(config.priority,
                                        Str(<<"M", "E", "D", "I", "U", "M">>))),
                     title |-> title.v,
                     message |-> message.v,
                     linkTo |-> OrElse(Get(context, kLinkTo), Null),
                     isRead |-> FALSE,
                     createdAt |-> now]>>,
                  IF ioInstance # "null"
                  THEN <<[room |-> automation.workspaceId,
                          event |-> "new-alert",
                          type |-> config.alertType,
                          message |-> message.v]>>
                  ELSE <<>>,
                  <<>>)

\* the body of the try block; `fails`: the awaited call of this execution
\* (sendEmail, sendSMS or prisma.alert.create) rejects
executeAutomationTry(id, context, fails) ==
    LET automation == automations[id]
        config == automation.config
    IN
    CASE automation.action = "SEND_EMAIL" ->
            IF HasRecipient(context, kEmail)
            THEN LET body == replaceVariables(config.body, context)
                 IN  IF body.threw \/ fails
                     THEN Exec(id, "failed", TRUE, <<>>, <<>>, <<>>)
                     ELSE Exec(id, "sent", FALSE, <<>>, <<>>,
                               <<[channel |-> "email",
                                  to |-> ToStr(Get(context, kEmail)),
                                  subject |-> ToStr(OrElse(config.subject,
                                                           Str(sNotification))),
                                  body |-> body.v]>>)
            ELSE Exec(id, "skipped", FALSE, <<>>, <<>>, <<>>)
      [] automation.action = "SEND_SMS" ->
            IF HasRecipient(context, kPhone)
            THEN LET message == replaceVariables(config.message, context)
                 IN  IF message.threw \/ fails
                     THEN Exec(id, "failed", TRUE, <<>>, <<>>, <<>>)
                     ELSE Exec(id, "sent", FALSE, <<>>, <<>>,
                               <<[channel |-> "sms",
                                  to |-> ToStr(Get(context, kPhone)),
                                  message |-> message.v]>>)
            ELSE Exec(id, "skipped", FALSE, <<>>, <<>>, <<>>)
      [] automation.action = "CREATE_ALERT" -> createAlert(id, context, fails)
      [] OTHER -> Exec(id, "none", FALSE, <<>>, <<>>, <<>>)

\* executeAutomation without its catch block
executeAutomationNoCatch(id, context, fails) ==
    executeAutomationTry(id, context, fails)

\* executeAutomation: the catch block logs the exception and returns
executeAutomation(id, context, fails) ==
    [executeAutomationTry(id, context, fails) EXCEPT !.threw = FALSE]

----------------------------------------------------------------------------
(* Event Dispatcher                                                        *)

\* prisma.automation.findMany without the workspaceId condition
MatchingAutomationsAnyWorkspace(workspaceId, trigger) ==
    {id \in DOMAIN automations :
        /\ automations[id].trigger = trigger
        /\ automations[id].isActive}

\* prisma.automation.findMany without the isActive condition
MatchingAutomationsAnyState(workspaceId, trigger) ==
    {id \in DOMAIN automations :
        /\ automations[id].workspaceId = workspaceId
        /\ automations[id].trigger = trigger}

\* prisma.automation.findMany({where: {workspaceId, trigger, isActive: true}})
MatchingAutomations(workspaceId, trigger) ==
    {id \in DOMAIN automations :
        /\ automations[id].workspaceId = workspaceId
        /\ automations[id].trigger = trigger
        /\ automations[id].isActive}

\* the rows of a query in the order the database returns them (by id)
RECURSIVE InOrder(_)
InOrder(S) ==
    IF S = {} THEN <<>>
    ELSE LET m == CHOOSE x \in S : \A y \in S : x <= y
         IN  <<m>> \o InOrder(S \ {m})

\* for (const automation of automations) await executeAutomation(...):
\* an exception leaving executeAutomation ends the loop
RECURSIVE ExecuteEach(_, _, _, _)
ExecuteEach(ids, context, failRules, i) ==
    IF i > Len(ids) THEN <<>>
    ELSE LET e == executeAutomation(ids[i], context, ids[i] \in failRules)
         IN  IF e.threw THEN <<e>>
             ELSE <<e>> \o ExecuteEach(ids, context, failRules, i + 1)

\* What one call of triggerAutomation did.  `threw`: the call ended with an
\* exception; `selected`: the rules findMany returned; `execs`: the calls
\* of executeAutomation, in order.
\* `lookupFails`: findMany rejects; `failRules`: the rules whose awaited
\* call rejects.
triggerAutomationTry(workspaceId, trigger, context, lookupFails, failRules) ==
    IF lookupFails
    THEN [workspaceId |-> workspaceId, trigger |-> trigger, threw |-> TRUE,
          lookedUp |-> FALSE, selected |-> {}, execs |-> <<>>]
    ELSE LET found == MatchingAutomations(workspaceId, trigger)
             execs == ExecuteEach(InOrder(found), context, failRules, 1)
         IN  [workspaceId |-> workspaceId, trigger |-> trigger,
              threw |-> (execs # <<>> /\ execs[Len(execs)].threw),
              lookedUp |-> TRUE, selected |-> found, execs |-> execs]

\* triggerAutomation without its catch block
triggerAutomationNoCatch(workspaceId, trigger, context, lookupFails, failRules) ==
    triggerAutomationTry(workspaceId, trigger, context, lookupFails, failRules)

\* triggerAutomation: the catch block logs the exception and returns
triggerAutomation(workspaceId, trigger, context, lookupFails, failRules) ==
    [triggerAutomationTry(workspaceId, trigger, context, lookupFails, failRules)
        EXCEPT !.threw = FALSE]

----------------------------------------------------------------------------
(* Periodic Scanners                                                       *)

Range(f) == {f[i] : i \in DOMAIN f}

\* the bag of the elements of a sequence
BagOf(rows) ==
    [x \in Range(rows) |-> Cardinality({i \in DOMAIN rows : rows[i] = x})]

\* the orders in which a query without orderBy may return the rows S
Orders(S) ==
    {f \in [1..Cardinality(S) -> S] : \A i, j \in DOMAIN f : f[i] = f[j] => i = j}

\* x is null
IsNull(x) == "t" \in DOMAIN x /\ x.t = "null"

\* c?.field
Opt(c, field) == IF IsNull(c) THEN Undefined ELSE c[field]

\* toLocaleDateString / toLocaleTimeString of a time, reduced to the day
\* number and the hour of the day
DateStr(t) == <<"d", "a", "y", " ">> \o ToDigits(t \div Day)
TimeStr(t) == ToDigits(t % Day) \o <<":", "0", "0">>

\* What a scan run has done so far.  `aborted`: why the scan's own catch
\* block ended the run ("none": it ran to its end); `dispatches`: the calls
\* of triggerAutomation, numbered in order; `created`: the Alert rows created, in order;
\* `sends`: the provider calls that succeeded; `skipped`: the entities the
\* scan itself left out.
NoRun ==
    [aborted |-> "none", dispatches |-> {}, created |-> <<>>, sends |-> {},
     skipped |-> {}]

RECURSIVE AlertsOf(_, _)
AlertsOf(execs, i) ==
    IF i > Len(execs) THEN <<>> ELSE execs[i].alert \o AlertsOf(execs, i + 1)

\* the emits of the executions of one dispatch, in order
RECURSIVE EmitsOf(_, _)
EmitsOf(execs, i) ==
    IF i > Len(execs) THEN <<>> ELSE execs[i].emit \o EmitsOf(execs, i + 1)

SendsOf(execs, entity) ==
    {<<execs[i].send[1].channel, execs[i].rule, entity>> :
        i \in {j \in DOMAIN execs : execs[j].send # <<>>}}

\* the scan awaited triggerAutomation for `entity`, which did d
Dispatched(acc, entity, d) ==
    [acc EXCEPT
        !.aborted = IF d.threw THEN "dispatch" ELSE "none",
        !.dispatches = @ \cup {[entity |-> entity, call |-> d,
                                seq |-> Cardinality(acc.dispatches) + 1]},
        !.created = @ \o AlertsOf(d.execs, 1),
        !.sends = @ \cup SendsOf(d.execs, entity)]

\* The awaited calls of one scan run that reject: the rule lookup of one
\* entity (`lookup`), the channel or persistence call of some rules
\* (`rules`), and one call the scan makes itself per entity (`own`).
NoEntity == <<"none", 0>>

ActiveRules(trigger) ==
    {id \in DOMAIN automations :
        automations[id].trigger = trigger /\ automations[id].isActive}

\* the number of calls an oracle makes reject
Cost(o) ==
    Cardinality(o.rules) + (IF o.lookup = NoEntity THEN 0 ELSE 1)
        + (IF o.own = NoEntity THEN 0 ELSE 1)

\* the oracles of a scan run that the fault bound still allows
Oracles(qualifying, trigger, ownCalls) ==
    {o \in [lookup : qualifying \cup {NoEntity},
            rules : SUBSET ActiveRules(trigger),
            own : ownCalls \cup {NoEntity}] :
        faults + Cost(o) <= MaxFaults}

(* ---- booking reminders ---- *)

BookingContext(b) ==
    <<KV(kContactName,
         Str(Trim(ToStr(Opt(b.contact, "firstName")) \o <<" ">>
                  \o ToStr(OrElse(Opt(b.contact, "lastName"), Str(<<>>)))))),
      KV(kEmail, Opt(b.contact, "email")),
      KV(kPhone, Opt(b.contact, "phone")),
      KV(kBookingType, Opt(b.bookingType, "name")),
      KV(kBookingDate, Str(DateStr(b.startTime))),
      KV(kBookingTime, Str(TimeStr(b.startTime)))>>

\* the window with its lower bound one day late
UpcomingBookingsLate ==
    LET tomorrow == now + Day + Day
    IN  {id \in DOMAIN bookings :
            /\ bookings[id].startTime >= tomorrow
            /\ bookings[id].startTime <= tomorrow + Day
            /\ bookings[id].status \in {"PENDING", "CONFIRMED"}}

\* the window of the calendar day after today, without its upper bound
UpcomingBookingsCalendarDay ==
    LET tomorrow == (now - (now % Day)) + Day
    IN  {id \in DOMAIN bookings :
            /\ bookings[id].startTime >= tomorrow
            /\ bookings[id].startTime < tomorrow + Day
            /\ bookings[id].status \in {"PENDING", "CONFIRMED"}}

\* the where clause of checkBookingReminders
UpcomingBookings ==
    LET tomorrow == now + Day
    IN  {id \in DOMAIN bookings :
            /\ bookings[id].startTime >= tomorrow
            /\ bookings[id].startTime <= tomorrow + Day
            /\ bookings[id].status \in {"PENDING", "CONFIRMED"}}

RECURSIVE RemindEach(_, _, _, _)
RemindEach(order, o, i, acc) ==
    IF i > Len(order) \/ acc.aborted # "none" THEN acc
    ELSE LET b == bookings[order[i]]
             entity == <<"booking", order[i]>>
         IN  RemindEach(order, o, i + 1,
                Dispatched(acc, entity,
                    triggerAutomation(b.workspaceId, "BOOKING_REMINDER",
                        BookingContext(b), o.lookup = entity, o.rules)))

\* checkBookingReminders; `order`: the rows of the query, in its order
checkBookingReminders(order, o) == RemindEach(order, o, 1, NoRun)

(* ---- pending forms ---- *)

SubmissionContext(s) ==
    <<KV(kContactName,
         Str(Trim(ToStr(s.contact.firstName) \o <<" ">>
                  \o ToStr(OrElse(s.contact.lastName, Str(<<>>)))))),
      KV(kEmail, s.contact.email),
      KV(kPhone, s.contact.phone),
      KV(kFormName, s.form.name)>>

\* the where clause of checkPendingForms without its status condition
PendingFormsAnyStatus ==
    LET oneDayAgo == now - Day
    IN  {id \in DOMAIN submissions : submissions[id].createdAt <= oneDayAgo}

\* the where clause of checkPendingForms
PendingForms ==
    LET oneDayAgo == now - Day
    IN  {id \in DOMAIN submissions :
            /\ submissions[id].status = "PENDING"
            /\ submissions[id].createdAt <= oneDayAgo}

\* reading submission.contact.firstName of a submission without contact
\* throws inside the scan's loop
RECURSIVE RemindFormEach(_, _, _, _)
RemindFormEach(order, o, i, acc) ==
    IF i > Len(order) \/ acc.aborted # "none" THEN acc
    ELSE LET s == submissions[order[i]]
             entity == <<"submission", order[i]>>
         IN  RemindFormEach(order, o, i + 1,
                IF IsNull(s.bookingId)
                THEN [acc EXCEPT !.skipped = @ \cup {entity}]
                ELSE IF IsNull(s.contact)
                THEN [acc EXCEPT !.aborted = "data"]
                ELSE Dispatched(acc, entity,
                        triggerAutomation(bookings[s.bookingId.v].workspaceId,
                            "FORM_PENDING", SubmissionContext(s),
                            o.lookup = entity, o.rules)))

\* checkPendingForms
checkPendingForms(order, o) == RemindFormEach(order, o, 1, NoRun)

(* ---- low inventory ---- *)

ItemContext(id) ==
    <<KV(kItemName, Str(items[id].name)),
      KV(kQuantity, Num(items[id].quantity)),
      KV(kThreshold, Num(items[id].lowStockThreshold)),
      KV(kLinkTo, Str(sInventoryPath \o ToDigits(id)))>>

\* the where clause of checkInventoryLevels with lt in place of lte
LowStockItemsBelow ==
    {id \in DOMAIN items :
        /\ items[id].isActive
        /\ items[id].quantity < items[id].lowStockThreshold}

\* the where clause of checkInventoryLevels
LowStockItems ==
    {id \in DOMAIN items :
        /\ items[id].isActive
        /\ items[id].quantity <= items[id].lowStockThreshold}

\* the dedup lookup with the time condition the wrong way round
RecentAlertOlder(rows, item) ==
    \E a \in rows :
        /\ a.workspaceId = item.workspaceId
        /\ a.type = "LOW_INVENTORY"
        /\ a.createdAt <= now - Day
        /\ Contains(a.message, item.name)

\* prisma.alert.findFirst(...) finds a row: rows is the set of Alert rows
RecentAlert(rows, item) ==
    \E a \in rows :
        /\ a.workspaceId = item.workspaceId
        /\ a.type = "LOW_INVENTORY"
        /\ a.createdAt >= now - Day
        /\ Contains(a.message, item.name)

RECURSIVE CheckEach(_, _, _, _)
CheckEach(order, o, i, acc) ==
    IF i > Len(order) \/ acc.aborted # "none" THEN acc
    ELSE LET item == items[order[i]]
             entity == <<"item", order[i]>>
             rows == BagToSet(alerts) \cup Range(acc.created)
         IN  CheckEach(order, o, i + 1,
                IF o.own = entity
                THEN [acc EXCEPT !.aborted = "dedup"]
                ELSE IF RecentAlert(rows, item)
                THEN [acc EXCEPT !.skipped = @ \cup {entity}]
                ELSE Dispatched(acc, entity,
                        triggerAutomation(item.workspaceId, "INVENTORY_LOW",
                            ItemContext(order[i]), o.lookup = entity, o.rules)))

\* checkInventoryLevels
checkInventoryLevels(order, o) == CheckEach(order, o, 1, NoRun)

(* ---- overdue forms ---- *)

\* the where clause of checkOverdueForms without its status condition
OverdueFormsAnyStatus ==
    {id \in DOMAIN submissions :
        /\ ~IsNull(submissions[id].dueDate)
        /\ submissions[id].dueDate.v < now}

\* the where clause of checkOverdueForms
OverdueForms ==
    {id \in DOMAIN submissions :
        /\ submissions[id].status = "PENDING"
        /\ ~IsNull(submissions[id].dueDate)
        /\ submissions[id].dueDate.v < now}

\* the update loop with a 'form pending' dispatch after each update
RECURSIVE MarkEachNotifying(_, _, _, _)
MarkEachNotifying(order, o, i, acc) ==
    IF i > Len(order) \/ acc.aborted # "none" THEN acc
    ELSE MarkEachNotifying(order, o, i + 1,
            IF o.own = <<"submission", order[i]>>
            THEN [acc EXCEPT !.aborted = "update"]
            ELSE LET s == submissions[order[i]]
                     marked == [acc EXCEPT
                                  !.table[order[i]].status = "OVERDUE",
                                  !.updated = @ \cup {order[i]}]
                 IN  IF IsNull(s.bookingId) THEN marked
                     ELSE Dispatched(marked, <<"submission", order[i]>>,
                            triggerAutomation(bookings[s.bookingId.v].workspaceId,
                                "FORM_PENDING", SubmissionContext(s), FALSE, {})))

\* the update loop of checkOverdueForms: the table after it, the rows it
\* wrote and the dispatches it made (none: the loop does not call
\* triggerAutomation); prisma.formSubmission.update of row o.own rejects
RECURSIVE MarkEach(_, _, _, _)
MarkEach(order, o, i, acc) ==
    IF i > Len(order) \/ acc.aborted # "none" THEN acc
    ELSE MarkEach(order, o, i + 1,
            IF o.own = <<"submission", order[i]>>
            THEN [acc EXCEPT !.aborted = "update"]
            ELSE [acc EXCEPT
                    !.table[order[i]].status = "OVERDUE",
                    !.updated = @ \cup {order[i]}])

\* checkOverdueForms
checkOverdueForms(order, o) ==
    MarkEach(order, o, 1,
             [aborted |-> "none", dispatches |-> {}, created |-> <<>>,
              sends |-> {}, skipped |-> {}, table |-> submissions,
              updated |-> {}])

---------------------------------------------------------------------------------------------------------------------------------------------------
(* Scheduler and state machine                                             *)

EmptyRun(name) ==
    [scan |-> name, at |-> now, qualifying |-> {}, aborted |-> "none",
     dispatches |-> {}, created |-> EmptyBag, sends |-> {}, skipped |-> {},
     updated |-> {}, rejected |-> 0]

\* the clients of the Socket.IO server
Clients == {"c1", "c2"}

\* no client is connected
NoSockets == [c \in Clients |-> [connected |-> FALSE, rooms |-> {}]]

\* the firings of the 15-minute cron that are taken step by step
Firings == {"t1", "t2"}

\* a firing whose callback has not started
IdleRun == [pc |-> "idle", scan |-> 0, queue |-> <<>>, rules |-> <<>>]

\* no callback is running step by step
NoRuns == [t \in Firings |-> IdleRun]

\* no rule was stored by setupAutomations
NoneSubmitted == <<>>

\* no booking request is being handled
NoRequests == <<>>

\* the loop of checkOverdueForms has not written
NoWrite == [id |-> 0, was |-> "none"]

\* replaceVariables has not been called on its own
NotCalled == [done |-> FALSE, threw |-> FALSE, v |-> <<>>]

\* the hours at which the 15-minute cron fires in the model
Schedule == <<0, 2, Day, Day + 1, Day + 3, Day + Day + 2>>

Init ==
    /\ now = Schedule[1]
    /\ automations = InitAutomations
    /\ bookings = InitBookings
    /\ submissions = InitSubmissions
    /\ items = InitItems
    /\ alerts = EmptyBag
    /\ outbox = EmptyBag
    /\ faults = 0
    /\ ioInstance = "null"
    /\ fastPc = "stopped"
    /\ lastRun = EmptyRun("none")
    /\ callTemplate = Undefined
    /\ callContext = <<>>
    /\ callResult = NotCalled
    /\ overduePc = "idle"
    /\ overdueForms = <<>>
    /\ lastWrite = NoWrite
    /\ sockets = NoSockets
    /\ received = [c \in Clients |-> <<>>]
    /\ published = <<>>
    /\ tickLog = <<>>
    /\ runs = NoRuns
    /\ submitted = NoneSubmitted
    /\ requests = NoRequests

\* startAutomationEngine(io): keeps the handle and schedules the two crons
startAutomationEngine ==
    /\ fastPc = "stopped"
    /\ ioInstance' = "io"
    /\ fastPc' = "idle"
    /\ UNCHANGED <<now, automations, bookings, submissions, items, alerts,
                   outbox, faults, lastRun>>
    /\ UNCHANGED <<call, overdueRun, hub>>
    /\ UNCHANGED <<tickLog, runs, controllers>>

\* time passes until the 15-minute cron fires again
ClockAdvance ==
    /\ fastPc = "done"
    /\ \E i \in 2..MaxTicks :
        /\ i \in DOMAIN Schedule
        /\ Schedule[i - 1] = now
        /\ now' = Schedule[i]
    /\ fastPc' = "idle"
    /\ lastRun' = [EmptyRun("none") EXCEPT !.at = now']
    /\ UNCHANGED <<automations, bookings, submissions, items, alerts, outbox,
                   faults, ioInstance>>
    /\ UNCHANGED <<call, overdueRun, hub>>
    /\ tickLog' = <<>>
    /\ UNCHANGED <<runs, controllers>>

\* the effects of a scan run whose alert writes replace the rows of the table
RecordReplacing(name, kind, qualifying, o, r) ==
    /\ alerts' = BagOf(r.created)
    /\ outbox' = outbox (+) SetToBag(r.sends)
    /\ faults' = faults + Cost(o)
    /\ lastRun' = [scan |-> name, at |-> now,
                   qualifying |-> {<<kind, id>> : id \in qualifying},
                   aborted |-> r.aborted, dispatches |-> r.dispatches,
                   created |-> BagOf(r.created), sends |-> r.sends,
                   skipped |-> r.skipped, updated |-> {},
                   rejected |-> Cost(o)]

\* the effects of a dispatching scan run on the tables and the providers
Record(name, kind, qualifying, o, r) ==
    /\ alerts' = alerts (+) BagOf(r.created)
    /\ outbox' = outbox (+) SetToBag(r.sends)
    /\ faults' = faults + Cost(o)
    /\ lastRun' = [scan |-> name, at |-> now,
                   qualifying |-> {<<kind, id>> : id \in qualifying},
                   aborted |-> r.aborted, dispatches |-> r.dispatches,
                   created |-> BagOf(r.created), sends |-> r.sends,
                   skipped |-> r.skipped, updated |-> {},
                   rejected |-> Cost(o)]

\* a scan whose findMany rejects: its catch block logs and returns
QueryFailed(name) ==
    /\ faults < MaxFaults
    /\ faults' = faults + 1
    /\ lastRun' = [EmptyRun(name) EXCEPT !.aborted = "query", !.rejected = 1]
    /\ UNCHANGED <<alerts, outbox>>

\* the 15-minute cron callback with a checkBookingReminders that rethrows:
\* a failed query ends the callback
FastTickRemindersRethrowing ==
    /\ fastPc = "idle"
    /\ \/ /\ QueryFailed("checkBookingReminders")
          /\ fastPc' = "done"
       \/ /\ \E order \in Orders(UpcomingBookings) :
             \E o \in Oracles({"booking"} \X UpcomingBookings, "BOOKING_REMINDER", {}) :
               Record("checkBookingReminders", "booking", UpcomingBookings, o,
                      checkBookingReminders(order, o))
          /\ fastPc' = "forms"
    /\ UNCHANGED <<now, automations, bookings, submissions, items, ioInstance>>
    /\ UNCHANGED <<call, overdueRun, hub>>
    /\ tickLog' = Append(tickLog, [scan |-> lastRun'.scan, aborted |-> lastRun'.aborted])
    /\ UNCHANGED <<runs, controllers>>

\* the 15-minute cron callback, first await: checkBookingReminders()
FastTickReminders ==
    /\ fastPc = "idle"
    /\ fastPc' = "forms"
    /\ \/ QueryFailed("checkBookingReminders")
       \/ \E order \in Orders(UpcomingBookings) :
          \E o \in Oracles({"booking"} \X UpcomingBookings, "BOOKING_REMINDER", {}) :
            Record("checkBookingReminders", "booking", UpcomingBookings, o,
                   checkBookingReminders(order, o))
    /\ UNCHANGED <<now, automations, bookings, submissions, items, ioInstance>>
    /\ UNCHANGED <<call, overdueRun, hub>>
    /\ tickLog' = Append(tickLog, [scan |-> lastRun'.scan, aborted |-> lastRun'.aborted])
    /\ UNCHANGED <<runs, controllers>>

\* the 15-minute cron callback, second await: checkPendingForms()
FastTickForms ==
    /\ fastPc = "forms"
    /\ fastPc' = "inventory"
    /\ \/ QueryFailed("checkPendingForms")
       \/ \E order \in Orders(PendingForms) :
          \E o \in Oracles({"submission"} \X PendingForms, "FORM_PENDING", {}) :
            Record("checkPendingForms", "submission", PendingForms, o,
                   checkPendingForms(order, o))
    /\ UNCHANGED <<now, automations, bookings, submissions, items, ioInstance>>
    /\ UNCHANGED <<call, overdueRun, hub>>
    /\ tickLog' = Append(tickLog, [scan |-> lastRun'.scan, aborted |-> lastRun'.aborted])
    /\ UNCHANGED <<runs, controllers>>

\* the 15-minute cron callback, third await: checkInventoryLevels()
FastTickInventory ==
    /\ fastPc = "inventory"
    /\ fastPc' = "done"
    /\ \/ QueryFailed("checkInventoryLevels")
       \/ \E order \in Orders(LowStockItems) :
          \E o \in Oracles({"item"} \X LowStockItems, "INVENTORY_LOW",
                           {"item"} \X LowStockItems) :
            Record("checkInventoryLevels", "item", LowStockItems, o,
                   checkInventoryLevels(order, o))
    /\ UNCHANGED <<now, automations, bookings, submissions, items, ioInstance>>
    /\ UNCHANGED <<call, overdueRun, hub>>
    /\ tickLog' = Append(tickLog, [scan |-> lastRun'.scan, aborted |-> lastRun'.aborted])
    /\ UNCHANGED <<runs, controllers>>

\* the hourly cron callback: checkOverdueForms()
HourlyTick ==
    /\ fastPc # "stopped"
    /\ \/ /\ faults < MaxFaults
          /\ faults' = faults + 1
          /\ lastRun' = [EmptyRun("checkOverdueForms") EXCEPT
                            !.aborted = "query", !.rejected = 1]
          /\ UNCHANGED <<submissions, alerts, outbox>>
       \/ \E order \in Orders(OverdueForms) :
          \E o \in Oracles({}, "NONE", {"submission"} \X OverdueForms) :
            LET r == checkOverdueForms(order, o)
            IN  /\ submissions' = r.table
                /\ alerts' = alerts (+) BagOf(r.created)
                /\ outbox' = outbox (+) SetToBag(r.sends)
                /\ faults' = faults + Cost(o)
                /\ lastRun' = [EmptyRun("checkOverdueForms") EXCEPT
                                !.qualifying = {"submission"} \X OverdueForms,
                                !.aborted = r.aborted,
                                !.dispatches = r.dispatches,
                                !.created = BagOf(r.created),
                                !.sends = r.sends,
                                !.updated = r.updated,
                                !.rejected = Cost(o)]
    /\ UNCHANGED <<now, automations, bookings, items, ioInstance, fastPc>>
    /\ UNCHANGED <<call, overdueRun, hub>>
    /\ UNCHANGED <<tickLog, runs, controllers>>

Next ==
    \/ startAutomationEngine
    \/ ClockAdvance
    \/ FastTickReminders
    \/ FastTickForms
    \/ FastTickInventory
    \/ HourlyTick

Spec == Init /\ [][Next]_vars

----------------------------------------------------------------------------
(* replaceVariables called on its own                                      *)

\* the longest template, in pieces
MaxPieces == 3

kA == <<"a">>
kB == <<"b">>
kM == <<"m">>
kName == <<"n", "a", "m", "e">>
kItem == <<"i", "t", "e", "m">>
kMissing == <<"m", "i", "s", "s", "i", "n", "g">>
\* "Hi {{name}}, item {{item}} is low"
tHiNameItem == <<"H", "i", " ", "{", "{", "n", "a", "m", "e", "}", "}", ",", " ", "i", "t", "e", "m", " ", "{", "{", "i", "t", "e", "m", "}", "}", " ", "i", "s", " ", "l", "o", "w">>
\* "Only {{quantity}} left"
tOnlyQuantityLeft == <<"O", "n", "l", "y", " ", "{", "{", "q", "u", "a", "n", "t", "i", "t", "y", "}", "}", " ", "l", "e", "f", "t">>

\* the pieces templates are made of: the placeholders of two keys the
\* context may hold and of one it never holds, and other text
Pieces == {Placeholder(kA), Placeholder(kB), Placeholder(kM), <<"x">>}

\* the texts of at most n pieces
RECURSIVE Texts(_)
Texts(n) ==
    IF n = 0 THEN {<<>>}
    ELSE Texts(n - 1) \cup {t \o p : t \in Texts(n - 1), p \in Pieces}

\* the values a context holds: text, text that is itself a placeholder,
\* text with a replacement pattern, and numbers
Values ==
    {Str(<<"X">>), Str(Placeholder(kB)), Str(<<"$", "&">>),
     Str(<<"$", "$", "5">>), Num(0), Num(3)}

\* the object literals over the keys a and b, in either key order
Contexts ==
    {<<>>}
    \cup {<<KV(k, x)>> : k \in {kA, kB}, x \in Values}
    \cup {<<KV(k[1], x), KV(k[2], y)>> :
            k \in {<<kA, kB>>, <<kB, kA>>}, x \in Values, y \in Values}

\* the calls the text of the contract gives as examples
ExampleCalls ==
    {[t |-> tHiNameItem, c |-> <<KV(kName, Str(sSam)), KV(kItem, Str(sGloves))>>],
     [t |-> Placeholder(kMissing), c |-> <<>>],
     [t |-> tOnlyQuantityLeft, c |-> <<KV(kQuantity, Num(0))>>]}

Calls == {[t |-> t, c |-> c] : t \in Texts(MaxPieces), c \in Contexts} \cup ExampleCalls

RenderInit ==
    /\ now = Schedule[1]
    /\ automations = InitAutomations
    /\ bookings = InitBookings
    /\ submissions = InitSubmissions
    /\ items = InitItems
    /\ alerts = EmptyBag
    /\ outbox = EmptyBag
    /\ faults = 0
    /\ ioInstance = "null"
    /\ fastPc = "stopped"
    /\ lastRun = EmptyRun("none")
    /\ \E x \in Calls :
        /\ callTemplate = Str(x.t)
        /\ callContext = x.c
    /\ callResult = NotCalled
    /\ overduePc = "idle"
    /\ overdueForms = <<>>
    /\ lastWrite = NoWrite
    /\ sockets = NoSockets
    /\ received = [c \in Clients |-> <<>>]
    /\ published = <<>>
    /\ tickLog = <<>>
    /\ runs = NoRuns
    /\ submitted = NoneSubmitted
    /\ requests = NoRequests

\* replaceVariables(callTemplate, callContext)
Render ==
    /\ ~callResult.done
    /\ LET r == replaceVariables(callTemplate, callContext)
       IN  callResult' = [done |-> TRUE, threw |-> r.threw, v |-> r.v]
    /\ UNCHANGED <<engine, callTemplate, callContext, overdueRun, hub>>
    /\ UNCHANGED <<tickLog, runs, controllers>>

RenderNext == Render

RenderSpec == RenderInit /\ [][RenderNext]_vars

----------------------------------------------------------------------------
(* checkOverdueForms step by step, next to the "submit form" action        *)

\* the number of form submissions
MaxRows == 2

\* the rows a submission table may hold
SubmissionRows ==
    {Submission(st, 0, due, Num(1), Sam) :
        st \in {"PENDING", "COMPLETED", "OVERDUE"},
        due \in {Num(1), Num(Day + Day), Null}}

OverdueInit ==
    /\ now = Schedule[2]
    /\ automations = InitAutomations
    /\ bookings = InitBookings
    /\ submissions \in [1..MaxRows -> SubmissionRows]
    /\ items = InitItems
    /\ alerts = EmptyBag
    /\ outbox = EmptyBag
    /\ faults = 0
    /\ ioInstance = "io"
    /\ fastPc = "idle"
    /\ lastRun = EmptyRun("none")
    /\ callTemplate = Undefined
    /\ callContext = <<>>
    /\ callResult = NotCalled
    /\ overduePc = "idle"
    /\ overdueForms = <<>>
    /\ lastWrite = NoWrite
    /\ sockets = NoSockets
    /\ received = [c \in Clients |-> <<>>]
    /\ published = <<>>
    /\ tickLog = <<>>
    /\ runs = NoRuns
    /\ submitted = NoneSubmitted
    /\ requests = NoRequests

\* const overdueForms = await prisma.formSubmission.findMany(...)
OverdueFind ==
    /\ overduePc = "idle"
    /\ overduePc' = "loop"
    /\ overdueForms' \in Orders(OverdueForms)
    /\ UNCHANGED <<engine, call, lastWrite, hub>>
    /\ UNCHANGED <<tickLog, runs, controllers>>

\* one turn of the loop: await prisma.formSubmission.update({ where: { id },
\* data: { status: OVERDUE } })
OverdueUpdate ==
    /\ overduePc = "loop"
    /\ overdueForms # <<>>
    /\ LET id == Head(overdueForms)
       IN  /\ submissions' = [submissions EXCEPT ![id].status = "OVERDUE"]
           /\ lastWrite' = [id |-> id, was |-> submissions[id].status]
    /\ overdueForms' = Tail(overdueForms)
    /\ UNCHANGED <<now, automations, bookings, items, alerts, outbox, faults,
                   ioInstance, fastPc, lastRun, call, overduePc, hub>>
    /\ UNCHANGED <<tickLog, runs, controllers>>

\* the update rejects: the catch block of the scan logs and returns
OverdueUpdateRejects ==
    /\ overduePc = "loop"
    /\ overdueForms # <<>>
    /\ faults < MaxFaults
    /\ faults' = faults + 1
    /\ overduePc' = "done"
    /\ overdueForms' = <<>>
    /\ UNCHANGED <<now, automations, bookings, submissions, items, alerts,
                   outbox, ioInstance, fastPc, lastRun, call, lastWrite,
                   hub>>
    /\ UNCHANGED <<tickLog, runs, controllers>>

\* the loop has reached the end of the rows
OverdueReturn ==
    /\ overduePc = "loop"
    /\ overdueForms = <<>>
    /\ overduePc' = "done"
    /\ UNCHANGED <<engine, call, overdueForms, lastWrite, hub>>
    /\ UNCHANGED <<tickLog, runs, controllers>>

\* the "submit form" action outside the engine: the contact hands in a form
\* that was not handed in yet
SubmitForm ==
    /\ \E id \in DOMAIN submissions :
        /\ submissions[id].status \in {"PENDING", "OVERDUE"}
        /\ submissions' = [submissions EXCEPT ![id].status = "COMPLETED"]
    /\ UNCHANGED <<now, automations, bookings, items, alerts, outbox, faults,
                   ioInstance, fastPc, lastRun, call, overdueRun, hub>>
    /\ UNCHANGED <<tickLog, runs, controllers>>

OverdueNext ==
    \/ OverdueFind
    \/ OverdueUpdate
    \/ OverdueUpdateRejects
    \/ OverdueReturn
    \/ SubmitForm

OverdueSpec == OverdueInit /\ [][OverdueNext]_vars

----------------------------------------------------------------------------
(* checkPendingForms over the submission tables it may find                *)

\* the number of form submissions checkPendingForms finds in the table
MaxForms == 3

\* The rows: handed in a day ago with a booking of either workspace or
\* without booking, without the contact record, handed in 23 hours ago,
\* and no longer PENDING.
FormRows ==
    {Submission("PENDING", 0, Null, b, Sam) : b \in {Num(1), Num(2), Null}}
    \cup {Submission("PENDING", 0, Null, Num(1), Null),
          Submission("PENDING", 1, Null, Num(1), Sam),
          Submission("COMPLETED", 0, Null, Num(1), Sam),
          Submission("OVERDUE", 0, Null, Num(1), Sam)}

FormsInit ==
    /\ now = Day
    /\ automations = InitAutomations
    /\ bookings = InitBookings
    /\ submissions \in [1..MaxForms -> FormRows]
    /\ items = InitItems
    /\ alerts = EmptyBag
    /\ outbox = EmptyBag
    /\ faults = 0
    /\ ioInstance = "io"
    /\ fastPc = "forms"
    /\ lastRun = EmptyRun("none")
    /\ callTemplate = Undefined
    /\ callContext = <<>>
    /\ callResult = NotCalled
    /\ overduePc = "idle"
    /\ overdueForms = <<>>
    /\ lastWrite = NoWrite
    /\ sockets = NoSockets
    /\ received = [c \in Clients |-> <<>>]
    /\ published = <<>>
    /\ tickLog = <<[scan |-> "checkBookingReminders", aborted |-> "none"]>>
    /\ runs = NoRuns
    /\ submitted = NoneSubmitted
    /\ requests = NoRequests

FormsNext == FastTickForms

FormsSpec == FormsInit /\ [][FormsNext]_vars

----------------------------------------------------------------------------
(* checkInventoryLevels over the item tables it may find                   *)

\* the number of inventory items checkInventoryLevels finds in the table
MaxItems == 2

\* The rows: an item of either workspace that is out of stock, at its
\* threshold or one above it, an item whose name is part of the other's
\* name, and items that are not active.
ItemRows ==
    {Item(w, sGloves, q, 10, TRUE) : w \in Workspaces, q \in {0, 10, 11}}
    \cup {Item("W2", sGlove, 3, 10, TRUE),
          Item("W1", sGloves, 0, 10, FALSE),
          Item("W2", sGlove, 10, 10, FALSE)}

InventoryInit ==
    /\ now = Schedule[1]
    /\ automations = InitAutomations
    /\ bookings = InitBookings
    /\ submissions = InitSubmissions
    /\ items \in [1..MaxItems -> ItemRows]
    /\ alerts = EmptyBag
    /\ outbox = EmptyBag
    /\ faults = 0
    /\ ioInstance = "io"
    /\ fastPc = "inventory"
    /\ lastRun = EmptyRun("none")
    /\ callTemplate = Undefined
    /\ callContext = <<>>
    /\ callResult = NotCalled
    /\ overduePc = "idle"
    /\ overdueForms = <<>>
    /\ lastWrite = NoWrite
    /\ sockets = NoSockets
    /\ received = [c \in Clients |-> <<>>]
    /\ published = <<>>
    /\ tickLog = <<[scan |-> "checkBookingReminders", aborted |-> "none"],
                  [scan |-> "checkPendingForms", aborted |-> "none"]>>
    /\ runs = NoRuns
    /\ submitted = NoneSubmitted
    /\ requests = NoRequests

InventoryNext == FastTickInventory

InventorySpec == InventoryInit /\ [][InventoryNext]_vars

----------------------------------------------------------------------------
(* What the properties observe                                             *)

\* the workspace an entity of a scan belongs to
WorkspaceOf(entity) ==
    CASE entity[1] = "booking" -> bookings[entity[2]].workspaceId
      [] entity[1] = "submission" ->
            bookings[submissions[entity[2]].bookingId.v].workspaceId
      [] OTHER -> items[entity[2]].workspaceId

\* the context a scan builds for an entity
ContextOf(entity) ==
    CASE entity[1] = "booking" -> BookingContext(bookings[entity[2]])
      [] entity[1] = "submission" -> SubmissionContext(submissions[entity[2]])
      [] OTHER -> ItemContext(entity[2])

\* the context key a send action needs
RecipientKey(channel) == IF channel \in {"SEND_EMAIL", "email"} THEN kEmail ELSE kPhone

Dispatches == lastRun.dispatches

Execs(d) == Range(d.call.execs)

DispatchingScans ==
    {"checkBookingReminders", "checkPendingForms", "checkInventoryLevels"}

\* the Alert table before the last scan run
Prior == alerts (-) lastRun.created

\* the rows of the table before the last run that the dedup lookup of
\* checkInventoryLevels is about: LOW_INVENTORY alerts of the item's
\* workspace that mention the item's name
MatchingAlerts(item) ==
    {a \in BagToSet(Prior) :
        /\ a.workspaceId = item.workspaceId
        /\ a.type = "LOW_INVENTORY"
        /\ Contains(a.message, item.name)}

\* the number of Alert rows the last run created for an entity
NewAlertsFor(entity) ==
    IF \E d \in Dispatches : d.entity = entity
    THEN Len(AlertsOf((CHOOSE d \in Dispatches : d.entity = entity).call.execs, 1))
    ELSE 0

EnabledAlertRules(w, trigger) ==
    {id \in DOMAIN automations :
        /\ automations[id].workspaceId = w
        /\ automations[id].trigger = trigger
        /\ automations[id].action = "CREATE_ALERT"
        /\ automations[id].isActive}

----------------------------------------------------------------------------
(* triggerAutomation called on its own (it is exported), before or after   *)
(* startAutomationEngine has set ioInstance                                *)

\* the number of rows, provider calls and rejected calls after which no
\* further call of triggerAutomation is made
MaxEffects == 2

\* the events the calls are made for: one of each kind, with the trigger
\* its scan passes
Events ==
    {[entity |-> <<"booking", 1>>, trigger |-> "BOOKING_REMINDER"],
     [entity |-> <<"submission", 1>>, trigger |-> "FORM_PENDING"],
     [entity |-> <<"item", 1>>, trigger |-> "INVENTORY_LOW"]}

\* an emit to a room reaches the sockets that are in the room
DeliverToAll(emits) ==
    [c \in Clients |-> received[c] \o emits]

Deliver(emits) ==
    [c \in Clients |->
        received[c] \o SelectSeq(emits, LAMBDA m : m.room \in sockets[c].rooms)]

DispatchInit ==
    /\ now = Schedule[1]
    /\ automations = InitAutomations
    /\ bookings = InitBookings
    /\ submissions = InitSubmissions
    /\ items = InitItems
    /\ alerts = EmptyBag
    /\ outbox = EmptyBag
    /\ faults = 0
    /\ ioInstance = "null"
    /\ fastPc = "stopped"
    /\ lastRun = EmptyRun("none")
    /\ callTemplate = Undefined
    /\ callContext = <<>>
    /\ callResult = NotCalled
    /\ overduePc = "idle"
    /\ overdueForms = <<>>
    /\ lastWrite = NoWrite
    /\ sockets = NoSockets
    /\ received = [c \in Clients |-> <<>>]
    /\ published = <<>>
    /\ tickLog = <<>>
    /\ runs = NoRuns
    /\ submitted = NoneSubmitted
    /\ requests = NoRequests

\* await triggerAutomation(workspaceId, trigger, context)
Dispatch ==
    /\ BagCardinality(alerts) + BagCardinality(outbox) + faults < MaxEffects
    /\ \E event \in Events, workspaceId \in Workspaces :
       \E o \in Oracles({event.entity}, event.trigger, {}) :
         LET d == triggerAutomation(workspaceId, event.trigger,
                                    ContextOf(event.entity),
                                    o.lookup = event.entity, o.rules)
         IN  /\ Record("triggerAutomation", event.entity[1],
                       {event.entity[2]}, o,
                       Dispatched(NoRun, event.entity, d))
             /\ published' = published \o EmitsOf(d.execs, 1)
             /\ received' = Deliver(EmitsOf(d.execs, 1))
    /\ UNCHANGED <<now, automations, bookings, submissions, items, ioInstance,
                   fastPc, call, overdueRun, sockets>>
    /\ UNCHANGED <<tickLog, runs, controllers>>

DispatchNext ==
    \/ startAutomationEngine
    \/ Dispatch

DispatchSpec == DispatchInit /\ [][DispatchNext]_vars

----------------------------------------------------------------------------
(* The Socket.IO server: clients connect, join workspace rooms and        *)
(* disconnect while triggerAutomation is called                            *)

\* no awaited call rejects here: the calls that may reject are spent
HubInit ==
    /\ now = Schedule[1]
    /\ automations = InitAutomations
    /\ bookings = InitBookings
    /\ submissions = InitSubmissions
    /\ items = InitItems
    /\ alerts = EmptyBag
    /\ outbox = EmptyBag
    /\ faults = MaxFaults
    /\ ioInstance = "io"
    /\ fastPc = "idle"
    /\ lastRun = EmptyRun("none")
    /\ callTemplate = Undefined
    /\ callContext = <<>>
    /\ callResult = NotCalled
    /\ overduePc = "idle"
    /\ overdueForms = <<>>
    /\ lastWrite = NoWrite
    /\ sockets = NoSockets
    /\ received = [c \in Clients |-> <<>>]
    /\ published = <<>>
    /\ tickLog = <<>>
    /\ runs = NoRuns
    /\ submitted = NoneSubmitted
    /\ requests = NoRequests

\* io.on('connection'): a new socket, in no workspace room
Connect ==
    /\ \E c \in Clients :
        /\ ~sockets[c].connected
        /\ sockets' = [sockets EXCEPT ![c] = [connected |-> TRUE, rooms |-> {}]]
    /\ UNCHANGED <<engine, call, overdueRun, received, published>>
    /\ UNCHANGED <<tickLog, runs, controllers>>

\* socket.on('join-workspace', workspaceId): socket.join of the room
JoinWorkspace ==
    /\ \E c \in Clients, workspaceId \in Workspaces :
        /\ sockets[c].connected
        /\ workspaceId \notin sockets[c].rooms
        /\ sockets' = [sockets EXCEPT ![c].rooms = @ \cup {workspaceId}]
    /\ UNCHANGED <<engine, call, overdueRun, received, published>>
    /\ UNCHANGED <<tickLog, runs, controllers>>

\* socket.on('disconnect'): the socket is gone, and with it its rooms
Disconnect ==
    /\ \E c \in Clients :
        /\ sockets[c].connected
        /\ sockets' = [sockets EXCEPT ![c] = [connected |-> FALSE, rooms |-> {}]]
    /\ UNCHANGED <<engine, call, overdueRun, received, published>>
    /\ UNCHANGED <<tickLog, runs, controllers>>

HubNext ==
    \/ Connect
    \/ JoinWorkspace
    \/ Disconnect
    \/ Dispatch

HubSpec == HubInit /\ [][HubNext]_vars

----------------------------------------------------------------------------
(* setupAutomations (onboarding controller): the rules of a request are    *)
(* stored, and triggerAutomation is called afterwards                      *)

\* the number of rules setupAutomations stores in one behaviour
MaxSetup == 2

\* a rule of the request body: automation.trigger, automation.action,
\* automation.actions and automation.enabled, each of which may be absent
SetupRule(tr, ac, cfg, on) ==
    [trigger |-> tr, action |-> ac, actions |-> cfg, enabled |-> on]

\* an SMS rule switched off, an e-mail rule without action that is
\* switched on, and an alert rule without the flag
SmsRuleOff ==
    SetupRule("BOOKING_REMINDER", [t |-> "enum", v |-> "SEND_SMS"],
              [message |-> Str(tHi)], Bool(FALSE))
EmailRuleOn ==
    SetupRule("BOOKING_REMINDER", Undefined, EmailConfig, Bool(TRUE))
AlertRuleUnset ==
    SetupRule("INVENTORY_LOW", [t |-> "enum", v |-> "CREATE_ALERT"],
              NamedLowInventoryConfig, Undefined)

\* the `automations` arrays of the requests
SetupBodies ==
    {<<SmsRuleOff>>, <<EmailRuleOn>>, <<AlertRuleUnset>>, <<SmsRuleOff, EmailRuleOn>>}

\* the data of prisma.automation.create for a rule of the request
StoredRule(workspaceId, automation) ==
    Rule(workspaceId, automation.trigger,
         IF automation.action.t = "undefined" THEN "SEND_EMAIL"
         ELSE automation.action.v,
         OrElse(automation.enabled, Bool(TRUE)).v,
         automation.actions)

SetupInit ==
    /\ now = Schedule[1]
    /\ automations = InitAutomations
    /\ bookings = InitBookings
    /\ submissions = InitSubmissions
    /\ items = InitItems
    /\ alerts = EmptyBag
    /\ outbox = EmptyBag
    /\ faults = MaxFaults
    /\ ioInstance = "io"
    /\ fastPc = "idle"
    /\ lastRun = EmptyRun("none")
    /\ callTemplate = Undefined
    /\ callContext = <<>>
    /\ callResult = NotCalled
    /\ overduePc = "idle"
    /\ overdueForms = <<>>
    /\ lastWrite = NoWrite
    /\ sockets = NoSockets
    /\ received = [c \in Clients |-> <<>>]
    /\ published = <<>>
    /\ tickLog = <<>>
    /\ runs = NoRuns
    /\ submitted = NoneSubmitted
    /\ requests = NoRequests

\* setupAutomations: Promise.all of one prisma.automation.create per rule
\* of the request, in the workspace of the user (the onboardingStep of the
\* workspace, which it writes afterwards, is not part of the model)
setupAutomations ==
    /\ \E workspaceId \in Workspaces, body \in SetupBodies :
        /\ Len(automations) + Len(body) <= Len(InitAutomations) + MaxSetup
        /\ automations' = automations \o
              [i \in 1..Len(body) |-> StoredRule(workspaceId, body[i])]
        /\ submitted' = [id \in DOMAIN submitted \cup
                                 ((Len(automations) + 1)..(Len(automations) + Len(body))) |->
                            IF id \in DOMAIN submitted THEN submitted[id]
                            ELSE body[id - Len(automations)]]
    /\ UNCHANGED <<now, bookings, submissions, items, alerts, outbox, faults,
                   ioInstance, fastPc, lastRun, call, overdueRun, hub,
                   tickLog, runs, requests>>

SetupNext ==
    \/ setupAutomations
    \/ Dispatch

SetupSpec == SetupInit /\ [][SetupNext]_vars

----------------------------------------------------------------------------
(* createBooking and updateBooking (booking controller).  A request is     *)
(* taken one awaited Prisma call at a time, so that the requests of a      *)
(* workspace interleave.  The Booking rows of this part hold the columns   *)
(* the two handlers compare and write.                                      *)

\* the number of requests in one behaviour
MaxRequests == 2

\* the [startTime, endTime) of the requests: a slot, one that contains it,
\* one that ends where it starts, and one that overlaps its end
BookingTimes == {<<2, 3>>, <<1, 4>>, <<1, 2>>, <<2, 4>>}

\* the status of a request body
Status(st) == [t |-> "enum", v |-> st]

\* the fields an updateBooking request may hold
UpdateBodies ==
    [startTime : {Undefined, Num(1)}, endTime : {Undefined, Num(4)},
     status : {Undefined, Status("CANCELLED"), Status("CONFIRMED")}]

\* no row
NoRow == [workspaceId |-> "none", startTime |-> 0, endTime |-> 0,
          status |-> "none"]

\* prisma.booking.findFirst of the overlap check finds a row: a booking of
\* the workspace other than `except` that is not CANCELLED and holds
\* newStartTime, or holds newEndTime as an inner or end point
Overlapping(workspaceId, except, newStartTime, newEndTime) ==
    \E id \in DOMAIN bookings :
        /\ id # except
        /\ bookings[id].workspaceId = workspaceId
        /\ bookings[id].status # "CANCELLED"
        /\ \/ /\ bookings[id].startTime <= newStartTime
              /\ bookings[id].endTime > newStartTime
           \/ /\ bookings[id].startTime < newEndTime
              /\ bookings[id].endTime >= newEndTime

BookingInit ==
    /\ now = Schedule[1]
    /\ automations = InitAutomations
    /\ bookings = <<>>
    /\ submissions = InitSubmissions
    /\ items = InitItems
    /\ alerts = EmptyBag
    /\ outbox = EmptyBag
    /\ faults = MaxFaults
    /\ ioInstance = "io"
    /\ fastPc = "idle"
    /\ lastRun = EmptyRun("none")
    /\ callTemplate = Undefined
    /\ callContext = <<>>
    /\ callResult = NotCalled
    /\ overduePc = "idle"
    /\ overdueForms = <<>>
    /\ lastWrite = NoWrite
    /\ sockets = NoSockets
    /\ received = [c \in Clients |-> <<>>]
    /\ published = <<>>
    /\ tickLog = <<>>
    /\ runs = NoRuns
    /\ submitted = NoneSubmitted
    /\ requests = NoRequests

\* createBooking up to its overlap check: 400 if a row is found,
\* otherwise the handler goes on to prisma.booking.create
createBookingCheck ==
    /\ Len(requests) < MaxRequests
    /\ \E workspaceId \in Workspaces, times \in BookingTimes :
        requests' = Append(requests,
            [kind |-> "create", workspaceId |-> workspaceId, id |-> 0,
             startTime |-> Num(times[1]), endTime |-> Num(times[2]),
             status |-> Undefined, existing |-> NoRow,
             pc |-> IF Overlapping(workspaceId, 0, times[1], times[2])
                    THEN "rejected" ELSE "write"])
    /\ UNCHANGED <<engine, call, overdueRun, hub, tickLog, runs, submitted>>

\* createBooking: prisma.booking.create, status: status || 'PENDING'
createBookingWrite ==
    /\ \E r \in DOMAIN requests :
        /\ requests[r].kind = "create"
        /\ requests[r].pc = "write"
        /\ bookings' = Append(bookings,
              [workspaceId |-> requests[r].workspaceId,
               startTime |-> requests[r].startTime.v,
               endTime |-> requests[r].endTime.v,
               status |-> IF requests[r].status.t = "undefined" THEN "PENDING"
                          ELSE requests[r].status.v])
        /\ requests' = [requests EXCEPT ![r].pc = "done", ![r].id = Len(bookings) + 1]
    /\ UNCHANGED <<now, automations, submissions, items, alerts, outbox,
                   faults, ioInstance, fastPc, lastRun, call, overdueRun, hub,
                   tickLog, runs, submitted>>

\* updateBooking up to its first findFirst: 404 if the workspace has no
\* booking with the id; the overlap check is made only if the body holds
\* startTime or endTime
updateBookingFind ==
    /\ Len(requests) < MaxRequests
    /\ \E workspaceId \in Workspaces, id \in 1..MaxRequests, body \in UpdateBodies :
        LET found == id \in DOMAIN bookings
                        /\ bookings[id].workspaceId = workspaceId
        IN  requests' = Append(requests,
                [kind |-> "update", workspaceId |-> workspaceId, id |-> id,
                 startTime |-> body.startTime, endTime |-> body.endTime,
                 status |-> body.status,
                 existing |-> IF found THEN bookings[id] ELSE NoRow,
                 pc |-> IF ~found THEN "notfound"
                        ELSE IF body.startTime.t # "undefined"
                                  \/ body.endTime.t # "undefined"
                        THEN "check" ELSE "write"])
    /\ UNCHANGED <<engine, call, overdueRun, hub, tickLog, runs, submitted>>

\* updateBooking: the overlap check, with the times of the body or, for a
\* time the body does not hold, of the row read before
updateBookingCheck ==
    /\ \E r \in DOMAIN requests :
        LET q == requests[r]
            newStartTime == IF q.startTime.t # "undefined" THEN q.startTime.v
                            ELSE q.existing.startTime
            newEndTime == IF q.endTime.t # "undefined" THEN q.endTime.v
                          ELSE q.existing.endTime
        IN  /\ q.kind = "update"
            /\ q.pc = "check"
            /\ requests' = [requests EXCEPT ![r].pc =
                  IF Overlapping(q.workspaceId, q.id, newStartTime, newEndTime)
                  THEN "rejected" ELSE "write"]
    /\ UNCHANGED <<engine, call, overdueRun, hub, tickLog, runs, submitted>>

\* updateBooking: prisma.booking.update({ where: { id }, data }); a field
\* that is undefined in data is left as it is
updateBookingWrite ==
    /\ \E r \in DOMAIN requests :
        LET q == requests[r]
            row == bookings[q.id]
        IN  /\ q.kind = "update"
            /\ q.pc = "write"
            /\ bookings' = [bookings EXCEPT ![q.id] =
                  [workspaceId |-> row.workspaceId,
                   startTime |-> IF q.startTime.t # "undefined"
                                 THEN q.startTime.v ELSE row.startTime,
                   endTime |-> IF q.endTime.t # "undefined"
                               THEN q.endTime.v ELSE row.endTime,
                   status |-> IF q.status.t # "undefined"
                              THEN q.status.v ELSE row.status]]
            /\ requests' = [requests EXCEPT ![r].pc = "done"]
    /\ UNCHANGED <<now, automations, submissions, items, alerts, outbox,
                   faults, ioInstance, fastPc, lastRun, call, overdueRun, hub,
                   tickLog, runs, submitted>>

BookingNext ==
    \/ createBookingCheck
    \/ createBookingWrite
    \/ updateBookingFind
    \/ updateBookingCheck
    \/ updateBookingWrite

BookingSpec == BookingInit /\ [][BookingNext]_vars

----------------------------------------------------------------------------
(* Two firings of the 15-minute cron whose callbacks are taken step by     *)
(* step, one awaited call at a time: cron.schedule starts the callback of  *)
(* a firing whether or not the callback of an earlier firing has returned  *)

\* the scans of the callback, in the order of its awaits: the table each
\* one reads and the trigger it dispatches
ScanKind == <<"booking", "submission", "item">>
ScanTrigger == <<"BOOKING_REMINDER", "FORM_PENDING", "INVENTORY_LOW">>

\* the rows the findMany of the i-th scan returns
Qualifying(i) ==
    CASE i = 1 -> UpcomingBookings
      [] i = 2 -> PendingForms
      [] OTHER -> LowStockItems

\* the entity a run is at
EntityOf(run) == <<ScanKind[run.scan], Head(run.queue)>>

\* the scan of a run has returned: the callback awaits the next scan, or
\* has returned after the last one
AfterScan(run) ==
    IF run.scan < Len(ScanKind)
    THEN [pc |-> "query", scan |-> run.scan + 1, queue |-> <<>>, rules |-> <<>>]
    ELSE [pc |-> "done", scan |-> run.scan, queue |-> <<>>, rules |-> <<>>]

\* the loop of a scan goes on to the entity after the one it is at
NextEntity(run) ==
    [pc |-> "loop", scan |-> run.scan, queue |-> Tail(run.queue), rules |-> <<>>]

OverlapInit ==
    /\ now = Schedule[3]
    /\ automations = InitAutomations
    /\ bookings = InitBookings
    /\ submissions = InitSubmissions
    /\ items = InitItems
    /\ alerts = EmptyBag
    /\ outbox = EmptyBag
    /\ faults = MaxFaults
    /\ ioInstance = "io"
    /\ fastPc = "idle"
    /\ lastRun = EmptyRun("none")
    /\ callTemplate = Undefined
    /\ callContext = <<>>
    /\ callResult = NotCalled
    /\ overduePc = "idle"
    /\ overdueForms = <<>>
    /\ lastWrite = NoWrite
    /\ sockets = NoSockets
    /\ received = [c \in Clients |-> <<>>]
    /\ published = <<>>
    /\ tickLog = <<>>
    /\ runs = NoRuns
    /\ submitted = NoneSubmitted
    /\ requests = NoRequests

\* the cron fires: the callback starts and awaits checkBookingReminders()
TickFires ==
    /\ ioInstance = "io"
    /\ \E t \in Firings :
        /\ runs[t].pc = "idle"
        /\ runs' = [runs EXCEPT ![t] = [pc |-> "query", scan |-> 1,
                                        queue |-> <<>>, rules |-> <<>>]]
    /\ UNCHANGED <<engine, call, overdueRun, hub, tickLog, controllers>>

\* the findMany of a scan returns its rows
RunQuery ==
    /\ \E t \in Firings :
        /\ runs[t].pc = "query"
        /\ \E order \in Orders(Qualifying(runs[t].scan)) :
            runs' = [runs EXCEPT ![t].pc = "loop", ![t].queue = order]
    /\ UNCHANGED <<engine, call, overdueRun, hub, tickLog, controllers>>

\* the head of the for loop of a scan: the scan returns after the last
\* row; checkPendingForms leaves out a submission without booking and is
\* ended by one without contact; checkInventoryLevels awaits the dedup
\* lookup, the other scans triggerAutomation
RunLoop ==
    /\ \E t \in Firings :
        LET run == runs[t]
        IN  /\ run.pc = "loop"
            /\ runs' = [runs EXCEPT ![t] =
                  IF run.queue = <<>> THEN AfterScan(run)
                  ELSE CASE run.scan = 1 -> [run EXCEPT !.pc = "lookup"]
                         [] run.scan = 2 ->
                              IF IsNull(submissions[Head(run.queue)].bookingId)
                              THEN NextEntity(run)
                              ELSE IF IsNull(submissions[Head(run.queue)].contact)
                              THEN AfterScan(run)
                              ELSE [run EXCEPT !.pc = "lookup"]
                         [] OTHER -> [run EXCEPT !.pc = "dedup"]]
    /\ UNCHANGED <<engine, call, overdueRun, hub, tickLog, controllers>>

\* the prisma.alert.findFirst of checkInventoryLevels returns
RunDedup ==
    /\ \E t \in Firings :
        LET run == runs[t]
        IN  /\ run.pc = "dedup"
            /\ runs' = [runs EXCEPT ![t] =
                  IF RecentAlert(BagToSet(alerts), items[Head(run.queue)])
                  THEN NextEntity(run)
                  ELSE [run EXCEPT !.pc = "lookup"]]
    /\ UNCHANGED <<engine, call, overdueRun, hub, tickLog, controllers>>

\* the prisma.automation.findMany of triggerAutomation returns
RunLookup ==
    /\ \E t \in Firings :
        LET run == runs[t]
        IN  /\ run.pc = "lookup"
            /\ runs' = [runs EXCEPT
                  ![t].pc = "exec",
                  ![t].rules = InOrder(MatchingAutomations(
                                  WorkspaceOf(EntityOf(run)), ScanTrigger[run.scan]))]
    /\ UNCHANGED <<engine, call, overdueRun, hub, tickLog, controllers>>

\* the head of the for loop of triggerAutomation, into executeAutomation:
\* a send rule calls its channel (or is skipped without recipient); a
\* create-alert rule has its row created and published
RunExec ==
    /\ \E t \in Firings :
        LET run == runs[t]
        IN  /\ run.pc = "exec"
            /\ IF run.rules = <<>>
               THEN /\ runs' = [runs EXCEPT ![t] = NextEntity(run)]
                    /\ UNCHANGED <<alerts, published, received>>
               ELSE LET id == Head(run.rules)
                        context == ContextOf(EntityOf(run))
                    IN  IF automations[id].action = "CREATE_ALERT"
                        THEN LET e == createAlert(id, context, FALSE)
                             IN  /\ alerts' = alerts (+) BagOf(e.alert)
                                 /\ published' = published \o e.emit
                                 /\ received' = Deliver(e.emit)
                                 /\ runs' = [runs EXCEPT ![t].rules = Tail(@)]
                        ELSE /\ runs' = [runs EXCEPT
                                   ![t].rules =
                                       IF HasRecipient(context,
                                            RecipientKey(automations[id].action))
                                       THEN @ ELSE Tail(@),
                                   ![t].pc =
                                       IF HasRecipient(context,
                                            RecipientKey(automations[id].action))
                                       THEN "sending" ELSE "exec"]
                             /\ UNCHANGED <<alerts, published, received>>
    /\ UNCHANGED <<now, automations, bookings, submissions, items, outbox,
                   faults, ioInstance, fastPc, lastRun, call, overdueRun,
                   sockets, tickLog, controllers>>

\* the sendEmail or sendSMS a run awaits returns
RunReturn ==
    /\ \E t \in Firings :
        LET run == runs[t]
        IN  /\ run.pc = "sending"
            /\ outbox' = outbox (+) SetToBag({<<
                    IF automations[Head(run.rules)].action = "SEND_EMAIL"
                    THEN "email" ELSE "sms",
                    Head(run.rules), EntityOf(run)>>})
            /\ runs' = [runs EXCEPT ![t].pc = "exec", ![t].rules = Tail(@)]
    /\ UNCHANGED <<now, automations, bookings, submissions, items, alerts,
                   faults, ioInstance, fastPc, lastRun, call, overdueRun, hub,
                   tickLog, controllers>>

OverlapNext ==
    \/ TickFires
    \/ RunQuery
    \/ RunLoop
    \/ RunDedup
    \/ RunLookup
    \/ RunExec
    \/ RunReturn

OverlapSpec == OverlapInit /\ [][OverlapNext]_vars

----------------------------------------------------------------------------
(* Properties                                                              *)

\* C1: every provider call (e-mail or SMS) that a scan run makes for an
\* entity and a rule is the only one ever made for that entity and rule:
\* each qualifying event is notified exactly once, also when the entity
\* still qualifies on a later tick.
C1_ExactlyOncePerEvent ==
    \A d \in Dispatches : \A e \in Execs(d) :
        e.send # <<>> =>
            CopiesIn(<<e.send[1].channel, e.rule, d.entity>>, outbox) = 1

\* C2: a dispatch for workspace W selects and executes only rules of W, the
\* Alert rows and publishes it produces carry W, W is the workspace of the
\* scanned entity, and no provider call is ever made by a rule of another
\* workspace than the entity's.
C2_WorkspaceIsolation ==
    /\ \A d \in Dispatches :
        /\ d.call.workspaceId = WorkspaceOf(d.entity)
        /\ \A r \in d.call.selected :
            automations[r].workspaceId = d.call.workspaceId
        /\ \A e \in Execs(d) :
            /\ automations[e.rule].workspaceId = d.call.workspaceId
            /\ \A a \in Range(e.alert) : a.workspaceId = d.call.workspaceId
            /\ \A m \in Range(e.emit) : m.room = d.call.workspaceId
    /\ \A k \in BagToSet(outbox) :
        automations[k[2]].workspaceId = WorkspaceOf(k[3])

\* one reminder run sent an e-mail for a booking of each workspace, by the
\* rule of that workspace, the two rules being the same but for the
\* workspace
C2_Witness ==
    /\ lastRun.scan = "checkBookingReminders"
    /\ \E d1, d2 \in Dispatches :
        /\ d1.call.workspaceId = "W1" /\ d2.call.workspaceId = "W2"
        /\ \E e1 \in Execs(d1), e2 \in Execs(d2) :
            /\ e1.outcome = "sent" /\ e2.outcome = "sent"
            /\ automations[e1.rule].workspaceId = "W1"
            /\ automations[e2.rule].workspaceId = "W2"
            /\ automations[e1.rule].config = automations[e2.rule].config

\* C3: a rule whose isActive flag is false is never selected by a dispatch,
\* never executed, and never makes a provider call.
C3_DisabledNeverFire ==
    /\ \A d \in Dispatches :
        /\ \A r \in d.call.selected : automations[r].isActive
        /\ \A e \in Execs(d) : automations[e.rule].isActive
    /\ \A k \in BagToSet(outbox) : automations[k[2]].isActive

\* a dispatch looked up the rules of a workspace and trigger for which a
\* disabled rule exists, and executed an enabled one
C3_Witness ==
    \E d \in Dispatches :
        /\ d.call.lookedUp
        /\ Execs(d) # {}
        /\ \E r \in DOMAIN automations :
            /\ ~automations[r].isActive
            /\ automations[r].workspaceId = d.call.workspaceId
            /\ automations[r].trigger = d.call.trigger

\* C4: in a dispatch whose rule lookup succeeded, every matching enabled
\* rule is executed, whether or not the action of another one failed, and
\* the row or provider call of every execution that succeeded is there.
C4_PartialFailureIsolation ==
    \A d \in Dispatches :
        d.call.lookedUp =>
            /\ {e.rule : e \in Execs(d)}
                 = MatchingAutomations(d.call.workspaceId, d.call.trigger)
            /\ \A e \in Execs(d) :
                /\ e.outcome = "created" =>
                     e.alert # <<>> /\ BagIn(e.alert[1], alerts)
                /\ e.outcome = "sent" =>
                     BagIn(<<e.send[1].channel, e.rule, d.entity>>, outbox)

\* the first rule's channel call threw and the second rule's row is there
C4_Witness ==
    \E d \in Dispatches :
        \E i, j \in DOMAIN d.call.execs :
            /\ i < j
            /\ d.call.execs[i].outcome = "failed"
            /\ d.call.execs[j].outcome = "created"
            /\ BagIn(d.call.execs[j].alert[1], alerts)

\* C5: no call of triggerAutomation ends with an exception, no scan run is
\* ended by one, and a scan that no failure of its own ended has gone
\* through all its qualifying entities.
C5_DispatchNeverThrows ==
    lastRun.scan \in DispatchingScans =>
        /\ lastRun.aborted # "dispatch"
        /\ \A d \in Dispatches : ~d.call.threw
        /\ lastRun.aborted = "none" =>
             lastRun.qualifying = {d.entity : d \in Dispatches} \cup lastRun.skipped

\* the rule lookup of one entity failed and the scan dispatched a later one
C5_Witness ==
    \E d1, d2 \in Dispatches :
        /\ ~d1.call.lookedUp
        /\ d2.seq > d1.seq
        /\ d2.call.lookedUp

\* C6: executing a send-email (send-SMS) rule with a context whose email
\* (phone) is absent or empty makes no provider call, creates no Alert row,
\* publishes nothing and does not fail; no provider call is ever made for
\* an entity without the recipient field.
C6_SkipWithoutContactInfo ==
    /\ \A d \in Dispatches : \A e \in Execs(d) :
        LET action == automations[e.rule].action
        IN  (/\ action \in {"SEND_EMAIL", "SEND_SMS"}
             /\ ~Truthy(Get(ContextOf(d.entity), RecipientKey(action))))
            => /\ e.outcome = "skipped"
               /\ e.send = <<>> /\ e.alert = <<>> /\ e.emit = <<>>
               /\ ~e.threw
    /\ \A k \in BagToSet(outbox) :
        Truthy(Get(ContextOf(k[3]), RecipientKey(k[1])))

\* one dispatch skipped a send-email rule (email null) and a send-SMS rule
\* (phone empty)
C6_Witness ==
    \E d \in Dispatches :
        /\ Get(ContextOf(d.entity), kEmail) = Null
        /\ Get(ContextOf(d.entity), kPhone) = Str(<<>>)
        /\ \E e1, e2 \in Execs(d) :
            /\ automations[e1.rule].action = "SEND_EMAIL"
            /\ automations[e2.rule].action = "SEND_SMS"
            /\ e1.outcome = "skipped" /\ e2.outcome = "skipped"

\* C7: in a low-inventory run, for a low-stock item of a workspace with one
\* enabled inventory-low create-alert rule: no Alert is created for the
\* item when a matching alert is less than 24 hours old; exactly one is
\* created when all matching alerts are more than 24 hours old and no
\* awaited call of the run rejects.
C7_InventoryDedupWindow ==
    lastRun.scan = "checkInventoryLevels" =>
        \A entity \in lastRun.qualifying :
            LET item == items[entity[2]]
                prior == MatchingAlerts(item)
            IN  Cardinality(EnabledAlertRules(item.workspaceId, "INVENTORY_LOW")) = 1
                => /\ (\E a \in prior : now - a.createdAt < Day)
                        => NewAlertsFor(entity) = 0
                   /\ (/\ prior # {}
                       /\ \A a \in prior : now - a.createdAt > Day
                       /\ lastRun.rejected = 0)
                        => NewAlertsFor(entity) = 1

\* an item whose only matching alert is 25 hours old got one new Alert
C7_Witness ==
    /\ lastRun.scan = "checkInventoryLevels"
    /\ \E entity \in lastRun.qualifying :
        /\ MatchingAlerts(items[entity[2]]) # {}
        /\ \A a \in MatchingAlerts(items[entity[2]]) : now - a.createdAt = Day + 1
        /\ NewAlertsFor(entity) = 1

\* the row of the end-to-end scenario
GlovesAlert ==
    [workspaceId |-> "W1", type |-> "LOW_INVENTORY",
     priority |-> <<"M", "E", "D", "I", "U", "M">>,
     title |-> <<"G", "l", "o", "v", "e", "s", " ", "l", "o", "w">>,
     message |-> <<"O", "n", "l", "y", " ", "3", " ", "l", "e", "f", "t", " ", "(", "t", "h", "r", "e", "s", "h", "o", "l", "d", " ", "1", "0", ")">>,
     linkTo |-> Str(<<"/", "i", "n", "v", "e", "n", "t", "o", "r", "y", "/", "1">>),
     isRead |-> FALSE, createdAt |-> 0]

\* C8: with no rejected call, after the first low-inventory run (hour 0)
\* the LOW_INVENTORY alerts of W1 are exactly one row, 'Gloves low' /
\* 'Only 3 left (threshold 10)', unread, and after the second run (hour 2)
\* they still are.
C8_EndToEnd ==
    (/\ lastRun.scan = "checkInventoryLevels"
     /\ now \in {0, 2}
     /\ faults = 0)
    => /\ {a \in BagToSet(alerts) : a.workspaceId = "W1"} = {GlovesAlert}
       /\ CopiesIn(GlovesAlert, alerts) = 1

\* an overdue run that its catch block did not end has written OVERDUE to
\* every submission it found PENDING and past its due date
C9_AfterRun ==
    (lastRun.scan = "checkOverdueForms" /\ lastRun.aborted = "none")
    => \A entity \in lastRun.qualifying :
        /\ submissions[entity[2]].status = "OVERDUE"
        /\ entity[2] \in lastRun.updated

\* a step from a state where a submission is OVERDUE leaves it OVERDUE,
\* and the scan run the step is neither finds, writes nor dispatches it
C9_Step ==
    \A id \in DOMAIN submissions :
        submissions[id].status = "OVERDUE" =>
            /\ submissions'[id].status = "OVERDUE"
            /\ id \notin lastRun'.updated
            /\ <<"submission", id>> \notin lastRun'.qualifying
            /\ \A d \in lastRun'.dispatches : d.entity # <<"submission", id>>

\* C9: a PENDING submission whose dueDate is past is OVERDUE after one
\* overdue run; from then on every scan run leaves it OVERDUE, does not
\* write it and does nothing else for it.
C9_OverdueOneWay == [](C9_AfterRun) /\ [][C9_Step]_vars

\* a second overdue run found nothing to do for the submission the first
\* one had marked
C9_Witness ==
    /\ lastRun.scan = "checkOverdueForms"
    /\ lastRun.aborted = "none"
    /\ lastRun.updated = {}
    /\ submissions[1].status = "OVERDUE"

Reminded(id) ==
    \E d \in Dispatches :
        d.entity = <<"booking", id>> /\ d.call.trigger = "BOOKING_REMINDER"

\* C10: a reminder run whose query succeeded dispatches 'booking reminder'
\* for a booking only if its status is PENDING or CONFIRMED and it starts
\* 24 to 48 hours ahead; it does for such a booking 30 hours ahead; it does
\* not for a booking 3 or 50 hours ahead, nor for a CANCELLED, COMPLETED or
\* NO_SHOW one.
C10_ReminderWindow ==
    (lastRun.scan = "checkBookingReminders" /\ lastRun.aborted # "query") =>
        \A id \in DOMAIN bookings :
            LET b == bookings[id]
                ahead == b.startTime - now
            IN  /\ Reminded(id) =>
                    /\ b.status \in {"PENDING", "CONFIRMED"}
                    /\ ahead >= Day /\ ahead <= Day + Day
                /\ (ahead = 30 /\ b.status \in {"PENDING", "CONFIRMED"})
                    => Reminded(id)
                /\ ahead \in {3, 50} => ~Reminded(id)
                /\ b.status \in {"CANCELLED", "COMPLETED", "NO_SHOW"}
                    => ~Reminded(id)

\* the run of hour 0: the two bookings 30 hours ahead are reminded, those 3
\* and 50 hours ahead and the cancelled one are not
C10_Witness ==
    /\ lastRun.scan = "checkBookingReminders"
    /\ now = 0
    /\ Reminded(1) /\ Reminded(2)
    /\ ~Reminded(3) /\ ~Reminded(4) /\ ~Reminded(5)

\* the keys of a context
KeysOf(c) == {c[i].key : i \in DOMAIN c}

\* every value of the context is non-empty text without the characters in `chs`
TextWithout(c, chs) ==
    \A i \in DOMAIN c :
        /\ c[i].val.t = "string"
        /\ c[i].val.v # <<>>
        /\ \A j \in DOMAIN c[i].val.v : c[i].val.v[j] \notin chs

\* One pass over the template: each placeholder of a key of the context
\* is replaced by the string form of the key's value, inserted as it is
\* and not looked at again; all other text is copied.
RECURSIVE Verbatim(_, _, _)
Verbatim(s, c, i) ==
    IF i > Len(s) THEN <<>>
    ELSE IF \E j \in DOMAIN c : MatchAt(s, Placeholder(c[j].key), i)
         THEN LET j == CHOOSE j \in DOMAIN c : MatchAt(s, Placeholder(c[j].key), i)
              IN  ToStr(c[j].val) \o Verbatim(s, c, i + Len(Placeholder(c[j].key)))
         ELSE <<s[i]>> \o Verbatim(s, c, i + 1)

\* C11: for a context whose values are non-empty text without braces, the
\* call returns the template with every occurrence of the placeholder
\* of every key of the context replaced by the key's value and all other
\* text unchanged.
C11_SubstitutesPresentKeys ==
    (callResult.done /\ TextWithout(callContext, {"{", "}"}))
    => /\ ~callResult.threw
       /\ callResult.v = Verbatim(callTemplate.v, callContext, 1)

\* C12: for a context whose values are plain text, the text returned holds
\* no placeholder of a key that the context does not hold (it is rendered
\* as the empty string); the call on "{{missing}}" and the empty context
\* returns the empty string.
C12_MissingKeyIsEmpty ==
    (callResult.done /\ TextWithout(callContext, {"{", "}", "$"}))
    => /\ \A k \in {kA, kB, kM, kMissing} \ KeysOf(callContext) :
            ~Contains(callResult.v, Placeholder(k))
       /\ (callTemplate.v = Placeholder(kMissing) /\ callContext = <<>>)
            => callResult.v = <<>>

\* C13: for a context whose values are non-empty text without replacement
\* patterns, the text inserted for a placeholder is not scanned again: the
\* call returns what one pass over the template returns, whatever the order
\* of the keys; for {a: "{{b}}", b: "X"} the template "{{a}}" gives "{{b}}".
C13_NoReexpansion ==
    (callResult.done /\ TextWithout(callContext, {"$"}))
    => /\ callResult.v = Verbatim(callTemplate.v, callContext, 1)
       /\ (/\ callTemplate.v = Placeholder(kA)
           /\ Get(callContext, kA) = Str(Placeholder(kB))
           /\ Get(callContext, kB) = Str(<<"X">>))
            => callResult.v = Placeholder(kB)

Complete(id) ==
    ~IsNull(submissions[id].bookingId) /\ ~IsNull(submissions[id].contact)

\* C15: in a run of checkPendingForms in which no awaited call rejects, a
\* submission without its contact record is the only one left out: every
\* other qualifying submission that has a booking is dispatched, wherever
\* it stands in the batch.
C15_DataErrorIsolation ==
    (lastRun.scan = "checkPendingForms" /\ lastRun.rejected = 0)
    => \A entity \in lastRun.qualifying :
        Complete(entity[2]) => \E d \in Dispatches : d.entity = entity

\* startOfDay(t)
StartOfDay(t) == t - (t % Day)

\* the bookings whose startTime lies in the interval from lo to hi, hi
\* included or not, and whose status is PENDING or CONFIRMED
BookingsBetween(lo, hi, closed) ==
    {<<"booking", id>> : id \in
        {id \in DOMAIN bookings :
            /\ bookings[id].status \in {"PENDING", "CONFIRMED"}
            /\ bookings[id].startTime >= lo
            /\ IF closed THEN bookings[id].startTime <= hi
                         ELSE bookings[id].startTime < hi}}

\* C16 as stated: the qualifying set of a reminder run whose query
\* succeeded is exactly the PENDING or CONFIRMED bookings that start in
\* the half-open interval from startOfDay(now) + 1 day to one day later.
C16_CalendarDayWindow ==
    (lastRun.scan = "checkBookingReminders" /\ lastRun.aborted # "query")
    => lastRun.qualifying
         = BookingsBetween(StartOfDay(now) + Day, StartOfDay(now) + Day + Day, FALSE)

\* C16: the qualifying set of a reminder run whose query succeeded is
\* exactly the PENDING or CONFIRMED bookings that start in the closed
\* interval from now + 24 hours to now + 48 hours: it moves with the time
\* of day of now, and a booking that starts exactly at the upper bound is
\* included.
C16_RollingWindow ==
    (lastRun.scan = "checkBookingReminders" /\ lastRun.aborted # "query")
    => lastRun.qualifying = BookingsBetween(now + Day, now + Day + Day, TRUE)

\* a run two hours into the day found the booking that starts exactly 48
\* hours later, which starts after the end of the next calendar day
C16_Witness ==
    /\ lastRun.scan = "checkBookingReminders"
    /\ lastRun.aborted # "query"
    /\ now = 2
    /\ \E id \in DOMAIN bookings :
        /\ bookings[id].startTime = now + Day + Day
        /\ bookings[id].startTime >= StartOfDay(now) + Day + Day
        /\ <<"booking", id>> \in lastRun.qualifying

\* C17: a run of checkOverdueForms dispatches no trigger: it makes no
\* provider call, creates no Alert row and publishes nothing, whatever the
\* number of submissions it writes.
C17_OverdueScanIsHousekeeping ==
    [][HourlyTick =>
         /\ alerts' = alerts
         /\ outbox' = outbox
         /\ lastRun'.dispatches = {}
         /\ lastRun'.created = EmptyBag
         /\ lastRun'.sends = {}]_vars

\* a run wrote OVERDUE to two submissions, one of them with a booking of a
\* workspace that has enabled rules
C17_Witness ==
    /\ lastRun.scan = "checkOverdueForms"
    /\ Cardinality(lastRun.updated) = 2
    /\ \E id \in lastRun.updated :
        /\ ~IsNull(submissions[id].bookingId)
        /\ \E r \in DOMAIN automations :
            /\ automations[r].isActive
            /\ automations[r].workspaceId
                 = bookings[submissions[id].bookingId.v].workspaceId

\* C18: an execution that published 'new-alert' has persisted an Alert row
\* of the workspace of the room; an execution whose persistence failed has
\* published nothing; a create-alert execution made while ioInstance is
\* null has persisted its row and published nothing.
C18_PersistBeforePublish ==
    /\ \A d \in Dispatches : \A e \in Execs(d) :
        /\ e.emit # <<>> =>
            /\ e.emit[1].event = "new-alert"
            /\ e.alert # <<>>
            /\ e.alert[1].workspaceId = e.emit[1].room
            /\ BagIn(e.alert[1], alerts)
        /\ e.outcome = "failed" => e.emit = <<>>
        /\ (/\ ioInstance = "null"
            /\ automations[e.rule].action = "CREATE_ALERT"
            /\ e.outcome # "failed")
            => /\ e.alert # <<>>
               /\ BagIn(e.alert[1], alerts)
               /\ e.emit = <<>>
    /\ Len(published) <= BagCardinality(alerts)

\* a first call made before startAutomationEngine persisted a row without
\* publishing; in a second call, made after it, the persistence failed and
\* nothing was published
C18_Witness ==
    /\ BagCardinality(alerts) = 1
    /\ published = <<>>
    /\ ioInstance = "io"
    /\ \E d \in Dispatches : \E e \in Execs(d) :
        /\ automations[e.rule].action = "CREATE_ALERT"
        /\ e.outcome = "failed"

\* the emits a step makes
NewEmits == SubSeq(published', Len(published) + 1, Len(published'))

\* C19: in every step, a client gets exactly the emits the step makes to
\* rooms it has joined while it is connected at that moment; a client that
\* has not joined the room or is disconnected gets nothing, and a step that
\* makes no emit (a later connect or join) delivers nothing.
C19_RoomScopedBestEffort ==
    [][\A c \in Clients :
         received'[c] = received[c] \o
            SelectSeq(NewEmits,
                      LAMBDA m : sockets[c].connected /\ m.room \in sockets[c].rooms)]_vars

\* an alert of W1 was published; c1, in the room then, got it and has
\* disconnected; c2 joined the room afterwards and has got nothing
C19_Witness ==
    /\ published # <<>>
    /\ \A i \in DOMAIN published : published[i].room = "W1"
    /\ received["c1"] = published
    /\ ~sockets["c1"].connected
    /\ received["c2"] = <<>>
    /\ sockets["c2"].connected
    /\ "W1" \in sockets["c2"].rooms

\* the dispatches of the last run for a submission
FormDispatches(id) == {d \in Dispatches : d.entity = <<"submission", id>>}

\* C20: a run of checkPendingForms dispatches for a submission only if it
\* is PENDING, was created at least 24 hours before now and has a booking,
\* and then with trigger 'form pending' and the workspace of the booking; a
\* run that its catch block did not end dispatches once for every such
\* submission.  Submissions without booking, COMPLETED or OVERDUE are never
\* dispatched.
C20_PendingFormQualifyingSet ==
    lastRun.scan = "checkPendingForms" =>
        \A id \in DOMAIN submissions :
            LET s == submissions[id]
                qualifies == /\ s.status = "PENDING"
                             /\ now - s.createdAt >= Day
                             /\ ~IsNull(s.bookingId)
            IN  /\ \A d \in FormDispatches(id) :
                    /\ qualifies
                    /\ d.call.trigger = "FORM_PENDING"
                    /\ d.call.workspaceId = bookings[s.bookingId.v].workspaceId
                /\ (qualifies /\ lastRun.aborted = "none")
                    => Cardinality(FormDispatches(id)) = 1
                /\ (IsNull(s.bookingId) \/ s.status \in {"COMPLETED", "OVERDUE"})
                    => FormDispatches(id) = {}

\* one run dispatched for a submission with a booking of W1 and for one
\* with a booking of W2, and left out one without booking
C20_Witness ==
    /\ lastRun.scan = "checkPendingForms"
    /\ lastRun.aborted = "none"
    /\ \E d1, d2 \in Dispatches :
        d1.call.workspaceId = "W1" /\ d2.call.workspaceId = "W2"
    /\ \E id \in DOMAIN submissions :
        /\ submissions[id].status = "PENDING"
        /\ IsNull(submissions[id].bookingId)
        /\ <<"submission", id>> \in lastRun.skipped

\* the dispatches of the last run for an item
ItemDispatches(id) == {d \in Dispatches : d.entity = <<"item", id>>}

\* C21: the items a run of checkInventoryLevels considers (those its query
\* returns) are exactly the active items with quantity <= lowStockThreshold,
\* quantity 0 and quantity equal to the threshold included; the run
\* dispatches 'inventory low' for such items only, so never for an inactive
\* item or one above its threshold.
C21_LowStockQualifyingSet ==
    (lastRun.scan = "checkInventoryLevels" /\ lastRun.aborted # "query")
    => /\ lastRun.qualifying
            = {<<"item", id>> : id \in
                {id \in DOMAIN items :
                    /\ items[id].isActive
                    /\ items[id].quantity <= items[id].lowStockThreshold}}
       /\ \A id \in DOMAIN items :
            /\ \A d \in ItemDispatches(id) :
                /\ d.call.trigger = "INVENTORY_LOW"
                /\ d.call.workspaceId = items[id].workspaceId
                /\ items[id].isActive
                /\ items[id].quantity <= items[id].lowStockThreshold
            /\ (~items[id].isActive
                   \/ items[id].quantity > items[id].lowStockThreshold)
                => ItemDispatches(id) = {}

\* one run dispatched for an item with quantity 0 and for an item at its
\* threshold
C21_Witness ==
    /\ lastRun.scan = "checkInventoryLevels"
    /\ lastRun.aborted = "none"
    /\ \E id \in DOMAIN items :
        /\ items[id].quantity = 0
        /\ ItemDispatches(id) # {}
    /\ \E id \in DOMAIN items :
        /\ items[id].quantity = items[id].lowStockThreshold
        /\ ItemDispatches(id) # {}

\* "Only 0 left"
sOnlyZeroLeft == <<"O", "n", "l", "y", " ", "0", " ", "l", "e", "f", "t">>

\* C22: for a context whose values are numbers, the call returns the
\* template with each placeholder of a key of the context replaced by the
\* decimal text of the number, 0 included: "Only {{quantity}} left" with
\* quantity 0 gives "Only 0 left".
C22_ZeroRendersAsZero ==
    (/\ callResult.done
     /\ \A i \in DOMAIN callContext : callContext[i].val.t = "number")
    => /\ ~callResult.threw
       /\ callResult.v = Verbatim(callTemplate.v, callContext, 1)
       /\ (/\ callTemplate.v = tOnlyQuantityLeft
           /\ callContext = <<KV(kQuantity, Num(0))>>)
            => callResult.v = sOnlyZeroLeft

\* C23: the subject and the body of every e-mail the last run handed to
\* the email channel are what replaceVariables returns for the rule's
\* subject (or 'Notification') and body with the context of the entity, and
\* no placeholder of a key of that context is left in the subject.
C23_SubjectIsRendered ==
    \A d \in Dispatches : \A e \in Execs(d) :
        (e.send # <<>> /\ e.send[1].channel = "email") =>
            LET config == automations[e.rule].config
                context == ContextOf(d.entity)
            IN  /\ e.send[1].subject
                    = replaceVariables(OrElse(config.subject, Str(sNotification)),
                                       context).v
                /\ e.send[1].body = replaceVariables(config.body, context).v
                /\ \A k \in KeysOf(context) :
                    ~Contains(e.send[1].subject, Placeholder(k))

\* the scans of the 15-minute callback, in the order of its awaits
FastScans == <<"checkBookingReminders", "checkPendingForms", "checkInventoryLevels">>

\* the scans a tick has run are the first ones of the callback, in its
\* order, whatever ended each of them, and the callback stands at the
\* await after them
C24_InTick ==
    /\ Len(tickLog) <= Len(FastScans)
    /\ \A i \in DOMAIN tickLog : tickLog[i].scan = FastScans[i]
    /\ fastPc = "idle" => tickLog = <<>>
    /\ fastPc = "forms" => Len(tickLog) = 1
    /\ fastPc = "inventory" => Len(tickLog) = 2
    /\ fastPc = "done" => Len(tickLog) = 3

\* a step that runs checkOverdueForms or writes a submission is the hourly
\* callback: it runs none of the scans of the 15-minute callback and leaves
\* that callback where it stands; a step of the 15-minute callback runs one
\* scan, the next one
C24_Step ==
    /\ (submissions' # submissions
           \/ (lastRun' # lastRun /\ lastRun'.scan = "checkOverdueForms"))
        => /\ lastRun'.scan = "checkOverdueForms"
           /\ tickLog' = tickLog
           /\ fastPc' = fastPc
           /\ fastPc # "stopped"
    /\ (tickLog' # tickLog /\ tickLog' # <<>>)
        => /\ Len(tickLog') = Len(tickLog) + 1
           /\ lastRun'.scan = FastScans[Len(tickLog')]
           /\ submissions' = submissions

\* C24: a tick runs the reminder scan, then the pending-form scan, then the
\* inventory scan, each after the one before it has ended and also when
\* that one failed, so that a callback that has ended has run all three;
\* checkOverdueForms is run by the hourly callback only, which runs nothing
\* else.
C24_SchedulerCadences == [](C24_InTick) /\ [][C24_Step]_vars

\* a tick whose reminder scan was ended by its failed query has run the
\* pending-form scan and the inventory scan after it
C24_Witness ==
    /\ fastPc = "done"
    /\ Len(tickLog) = 3
    /\ tickLog[1].aborted = "query"
    /\ lastRun.scan = "checkInventoryLevels"
    /\ lastRun.aborted = "none"

\* what one step of the engine may write
C26_Step ==
    /\ \A a \in BagToSet(alerts) : CopiesIn(a, alerts') >= CopiesIn(a, alerts)
    /\ automations' = automations
    /\ bookings' = bookings
    /\ items' = items
    /\ DOMAIN submissions' = DOMAIN submissions
    /\ \A id \in DOMAIN submissions :
        submissions'[id] # submissions[id] =>
            /\ lastRun'.scan = "checkOverdueForms"
            /\ id \in lastRun'.updated
            /\ submissions'[id] = [submissions[id] EXCEPT !.status = "OVERDUE"]
    /\ tickLog' # tickLog => submissions' = submissions

\* C26: every step of the engine leaves each Alert row that exists in the
\* table (rows are only added); it leaves the automation rules, the
\* bookings with their contacts and the inventory items as they are; a
\* submission changes only in a run of checkOverdueForms and only in its
\* status, and no scan of the 15-minute callback changes a submission.
C26_WriteFootprint == [][C26_Step]_vars

\* rows were added to the Alert table by runs at two different hours, and
\* a submission has been marked OVERDUE
C26_Witness ==
    /\ \E a, b \in BagToSet(alerts) : a.createdAt < b.createdAt
    /\ \E id \in DOMAIN submissions : submissions[id].status = "OVERDUE"

\* the Alert rows that a dispatch for the item has created (their linkTo
\* is the path of the item) and that are less than a day old
RecentAlertsOf(id) ==
    {a \in BagToSet(alerts) :
        /\ a.workspaceId = items[id].workspaceId
        /\ a.linkTo = Str(sInventoryPath \o ToDigits(id))
        /\ a.createdAt >= now - Day}

\* C28: a run of checkInventoryLevels in which no awaited call rejects
\* leaves out a low-stock item only if a recent alert of that item exists;
\* a recent alert of another item of the workspace does not suppress the
\* dispatch, also when the item's name is part of the other item's name.
C28_DedupIsPerItem ==
    (lastRun.scan = "checkInventoryLevels" /\ lastRun.rejected = 0)
    => \A entity \in lastRun.skipped : RecentAlertsOf(entity[2]) # {}

\* the firings whose callback awaits a call of the email or SMS channel
InFlight == {t \in Firings : runs[t].pc = "sending"}

\* C25: at every moment at most one call of the email or SMS channel made
\* by the engine is in flight, also while the callbacks of two firings of
\* the 15-minute cron are running.
C25_ProviderConcurrencyCap == Cardinality(InFlight) <= 1

\* the LOW_INVENTORY rows of the Alert table that link to the item, as a bag
AlertsLinkedTo(id) ==
    LET rows == {a \in BagToSet(alerts) :
                    /\ a.workspaceId = items[id].workspaceId
                    /\ a.type = "LOW_INVENTORY"
                    /\ a.linkTo = Str(sInventoryPath \o ToDigits(id))}
    IN  [a \in rows |-> CopiesIn(a, alerts)]

\* C27: while the callbacks of two firings run, each with its own run of
\* checkInventoryLevels, a low-stock item whose workspace has one enabled
\* inventory-low create-alert rule (with a message that names the item, so
\* that the dedup lookup finds the item's alert) and that had no recent
\* alert gets at most one new LOW_INVENTORY Alert.
C27_DedupUnderOverlap ==
    \A id \in LowStockItems :
        LET rules == EnabledAlertRules(items[id].workspaceId, "INVENTORY_LOW")
        IN  (/\ Cardinality(rules) = 1
             /\ \A r \in rules :
                    Contains(automations[r].config.message.v, Placeholder(kItemName)))
            => BagCardinality(AlertsLinkedTo(id)) <= 1

\* the rule was submitted with enabled = false
SubmittedOff(id) == id \in DOMAIN submitted /\ submitted[id].enabled = Bool(FALSE)

\* C29: a rule that setupAutomations was given with enabled = false is
\* stored inactive, is selected by no dispatch and makes no provider call
\* and no Alert; a rule given with enabled = true or without the flag is
\* stored active.
C29_EnabledFlagPreserved ==
    /\ \A id \in DOMAIN submitted :
        automations[id].isActive = ~SubmittedOff(id)
    /\ \A d \in Dispatches :
        /\ \A r \in d.call.selected : ~SubmittedOff(r)
        /\ \A e \in Execs(d) : ~SubmittedOff(e.rule)
    /\ \A k \in BagToSet(outbox) : ~SubmittedOff(k[2])

\* no two bookings of one workspace that are not CANCELLED have
\* overlapping [startTime, endTime)
C30_NoOverlap ==
    \A i, j \in DOMAIN bookings :
        (/\ i < j
         /\ bookings[i].workspaceId = bookings[j].workspaceId
         /\ bookings[i].status # "CANCELLED"
         /\ bookings[j].status # "CANCELLED")
        => ~(/\ bookings[i].startTime < bookings[j].endTime
             /\ bookings[j].startTime < bookings[i].endTime)

\* a step in which a request is rejected (400 or 404) leaves the bookings
\* as they are
C30_Rejected ==
    (\E r \in DOMAIN requests' :
        /\ requests'[r].pc \in {"rejected", "notfound"}
        /\ r \in DOMAIN requests => requests[r].pc # requests'[r].pc)
    => bookings' = bookings

\* C30: after any sequence and interleaving of createBooking and
\* updateBooking requests no two bookings of a workspace that are not
\* CANCELLED overlap, also when the new interval contains an existing one;
\* a rejected request leaves the stored bookings unchanged.
C30_NoDoubleBooking == [](C30_NoOverlap) /\ [][C30_Rejected]_vars

====
